---- MODULE Spec2Model ----
(***************************************************************************)
(* Model of dep_map.graph.DependencyGraph (src/src/dep_map/graph.py): the  *)
(* record map, the provides / subpackage indexes, the forward graph (a     *)
(* networkx DiGraph: at most ONE edge per ordered node pair, carrying one  *)
(* "type" attribute), the reverse graph, and the queries over them.        *)
(*                                                                         *)
(* Package names and dependency tokens are modelled as naturals; the       *)
(* order of the naturals stands for the lexicographic order of the names   *)
(* that sorted() uses.                                                     *)
(***************************************************************************)
EXTENDS Integers, Sequences, FiniteSets, TLC

VARIABLES packages, _graph, _reverse_graph, _provides_map, _subpkg_map, adds, call

\* the AportsScanner: the parser all its workers share, the workers of a
\* scan, the scanner's own dictionaries, and the JSON file it saves
VARIABLES parser, workers, scanner, disk

vars == <<packages, _graph, _reverse_graph, _provides_map, _subpkg_map, adds, call, parser, workers, scanner, disk>>

gvars == <<packages, _graph, _reverse_graph, _provides_map, _subpkg_map, adds>>

svars == <<parser, workers, scanner, disk>>

----------------------------------------------------------------------------
(* Bounds of the model.                                                    *)

\* canonical package names are 1..NumNames
NumNames == 3
\* tokens that are never the name of a record (pure aliases / unknown names)
NumAlias == 1
\* records of the record map handed to the constructor in InitBuild
MaxInitPkgs == 2
\* dependency / provides / subpackage tokens in the whole initial record map
MaxInitTokens == 2
\* dependency tokens in the whole record map of InitGraph
MaxEdges == 3
\* add_package calls in one behaviour
MaxAdds == 2
\* largest max_depth argument of a query
MaxDepth == 2

Names == 1..NumNames

NumTokens == NumNames + NumAlias

Tokens == 1..NumTokens

DepthArgs == (0 - 1)..MaxDepth

\* the top_n arguments: none, some, all and more than all of the names
TopArgs == 0..(NumNames + 1)

\* the package lists handed to get_subgraph: one or two tokens
PkgLists(T) == {<<a>> : a \in T} \cup {<<a, b>> : a \in T, b \in T}

----------------------------------------------------------------------------
(* Generic helpers.                                                        *)

Range(s) == {s[i] : i \in DOMAIN s}

Min(S) == CHOOSE x \in S : \A y \in S : x <= y

\* F(x) with x evaluated first and once: x is bound as an element of a set,
\* so F works on the value of x and not on the expression that computes it
Then(x, F(_)) == CHOOSE r \in {F(v) : v \in {x}} : TRUE

\* Python sorted(S) of a set of names: the ascending list
RECURSIVE Sorted(_)
Sorted(S) == IF S = {} THEN <<>> ELSE <<Min(S)>> \o Sorted(S \ {Min(S)})

----------------------------------------------------------------------------
(* DependencyType and PackageInfo.                                         *)

RUNTIME == "runtime"
BUILD == "build"
CHECK == "check"
ALL == "all"

DependencyType == {RUNTIME, BUILD, CHECK, ALL}

EdgeTypes == {RUNTIME, BUILD, CHECK}

\* A provides entry is a name with an optional version constraint:
\* "foo", "foo=1.0", "foo>1.0", "foo<1.0".
ProvOps == <<"", "=", ">", "<">>

ProvEntries == [n : Tokens, op : Range(ProvOps)]

\* The string "foo>1.0" as a dictionary key: a key distinct from every bare
\* token (bare tokens are 1..NumTokens).
OpIndex(op) == CHOOSE i \in DOMAIN ProvOps : ProvOps[i] = op

RawKey(prov) == prov.n + NumTokens * (OpIndex(prov.op) - 1)

\* prov.split('=')[0]: cuts at the first '=' only
SplitEq(prov) == IF prov.op \in {"", "="} THEN prov.n ELSE RawKey(prov)

\* prov.split('=')[0].split('>')[0].split('<')[0]
SplitEqGtLt(prov) == prov.n

PackageInfo(name, depends, makedepends, makedepends_build, makedepends_host, checkdepends, provides, subpackages) ==
    [name |-> name, depends |-> depends, makedepends |-> makedepends,
     makedepends_build |-> makedepends_build,
     makedepends_host |-> makedepends_host,
     checkdepends |-> checkdepends, provides |-> provides,
     subpackages |-> subpackages]

\* PackageInfo.build_depends: the union of the three makedepends lists
build_depends(pkg) ==
    Range(pkg.makedepends) \cup Range(pkg.makedepends_build)
        \cup Range(pkg.makedepends_host)

----------------------------------------------------------------------------
(* The record map: a Python dict keyed by package name, kept as the        *)
(* sequence of its values in insertion order.                              *)

Keys(pkgs) == {pkgs[i].name : i \in DOMAIN pkgs}

Lookup(pkgs, name) == pkgs[CHOOSE i \in DOMAIN pkgs : pkgs[i].name = name]

\* pkgs[pkg.name] = pkg : a new key is appended, an old key keeps its place
DictSet(pkgs, pkg) ==
    IF pkg.name \in Keys(pkgs)
    THEN [i \in DOMAIN pkgs |-> IF pkgs[i].name = pkg.name THEN pkg ELSE pkgs[i]]
    ELSE Append(pkgs, pkg)

\* d[k] = v on a dict kept as a function
MapSet(map, k, v) == [x \in (DOMAIN map) \cup {k} |-> IF x = k THEN v ELSE map[x]]

EmptyMap == [x \in {} |-> 0]

----------------------------------------------------------------------------
(* networkx DiGraph: a node set and, per ordered pair of nodes, at most    *)
(* one edge with its "type" attribute.                                     *)

EmptyGraph == [nodes |-> {}, adj |-> EmptyMap]

add_node(G, n) == [G EXCEPT !.nodes = @ \cup {n}]

\* DiGraph.add_edge(u, v, type=t): creates missing endpoints, and on an
\* existing edge u->v updates (overwrites) its attribute
add_edge(G, u, v, t) ==
    [nodes |-> G.nodes \cup {u, v}, adj |-> MapSet(G.adj, <<u, v>>, t)]

\* DiGraph.reverse(copy=True)
reverse(G) ==
    [nodes |-> G.nodes,
     adj |-> [e \in {<<p[2], p[1]>> : p \in DOMAIN G.adj} |-> G.adj[<<e[2], e[1]>>]]]

----------------------------------------------------------------------------
(* Name resolution and graph construction.                                 *)

None == 0

\* mutant: the provides index is consulted before the record map
_resolve_dep_ProvidesFirst(pkgs, pmap, smap, dep) ==
    IF dep \in DOMAIN pmap THEN pmap[dep]
    ELSE IF dep \in Keys(pkgs) THEN dep
    ELSE IF dep \in DOMAIN smap THEN smap[dep]
    ELSE None

\* DependencyGraph._resolve_dep: record name, then provides, then subpackage
_resolve_dep(pkgs, pmap, smap, dep) ==
    IF dep \in Keys(pkgs) THEN dep
    ELSE IF dep \in DOMAIN pmap THEN pmap[dep]
    ELSE IF dep \in DOMAIN smap THEN smap[dep]
    ELSE None

\* for prov in pkg.provides: self._provides_map[prov_name] = name   (_build_graph)
RECURSIVE BuildProvides(_, _, _)
BuildProvides(pmap, provs, name) ==
    IF provs = <<>> THEN pmap
    ELSE BuildProvides(MapSet(pmap, SplitEqGtLt(Head(provs)), name), Tail(provs), name)

\* for prov in pkg.provides: self._provides_map[prov.split('=')[0]] = pkg.name
\* (add_package)
RECURSIVE AddProvides(_, _, _)
AddProvides(pmap, provs, name) ==
    IF provs = <<>> THEN pmap
    ELSE AddProvides(MapSet(pmap, SplitEq(Head(provs)), name), Tail(provs), name)

\* for subpkg in pkg.subpackages: self._subpkg_map[subpkg] = name
RECURSIVE AddSubpkgs(_, _, _)
AddSubpkgs(smap, subs, name) ==
    IF subs = <<>> THEN smap
    ELSE AddSubpkgs(MapSet(smap, Head(subs), name), Tail(subs), name)

\* first loop of _build_graph: nodes and the two indexes, in dict order
RECURSIVE BuildIndexes(_, _)
BuildIndexes(st, todo) ==
    IF todo = <<>> THEN st
    ELSE LET pkg == Head(todo)
         IN BuildIndexes(
                [graph |-> add_node(st.graph, pkg.name),
                 provides |-> BuildProvides(st.provides, pkg.provides, pkg.name),
                 subpkg |-> AddSubpkgs(st.subpkg, pkg.subpackages, pkg.name)],
                Tail(todo))

\* mutant: the edge is added whatever the token resolved to
AddDepEdge_Unchecked(G, pkgs, pmap, smap, name, dep, t) ==
    add_edge(G, name, _resolve_dep(pkgs, pmap, smap, dep), t)

\* resolved = self._resolve_dep(dep)
\* if resolved and resolved in self._graph: add_edge(name, resolved, type=t)
AddDepEdge(G, pkgs, pmap, smap, name, dep, t) ==
    LET resolved == _resolve_dep(pkgs, pmap, smap, dep)
    IN IF resolved # None /\ resolved \in G.nodes
       THEN add_edge(G, name, resolved, t)
       ELSE G

\* for dep in deps: ...
RECURSIVE AddDepEdges(_, _, _, _, _, _, _)
AddDepEdges(G, pkgs, pmap, smap, name, deps, t) ==
    IF deps = <<>> THEN G
    ELSE AddDepEdges(AddDepEdge(G, pkgs, pmap, smap, name, Head(deps), t),
                     pkgs, pmap, smap, name, Tail(deps), t)

\* the edges _build_graph adds for one record: runtime, then build, then check
BuildEdgesOf(G, pkgs, pmap, smap, pkg) ==
    LET G1 == AddDepEdges(G, pkgs, pmap, smap, pkg.name, pkg.depends, RUNTIME)
        G2 == AddDepEdges(G1, pkgs, pmap, smap, pkg.name,
                          Sorted(build_depends(pkg)), BUILD)
    IN AddDepEdges(G2, pkgs, pmap, smap, pkg.name, pkg.checkdepends, CHECK)

\* second loop of _build_graph
RECURSIVE BuildEdges(_, _, _, _, _)
BuildEdges(G, pkgs, pmap, smap, todo) ==
    IF todo = <<>> THEN G
    ELSE BuildEdges(BuildEdgesOf(G, pkgs, pmap, smap, Head(todo)),
                    pkgs, pmap, smap, Tail(todo))

\* mutant: the reverse graph is copied before the edges are added
_build_graph_StaleReverse(pkgs) ==
    LET st == BuildIndexes([graph |-> EmptyGraph, provides |-> EmptyMap,
                            subpkg |-> EmptyMap], pkgs)
        G == BuildEdges(st.graph, pkgs, st.provides, st.subpkg, pkgs)
    IN [graph |-> G, reverse_graph |-> reverse(st.graph),
        provides |-> st.provides, subpkg |-> st.subpkg]

\* DependencyGraph._build_graph
_build_graph(pkgs) ==
    LET st == BuildIndexes([graph |-> EmptyGraph, provides |-> EmptyMap,
                            subpkg |-> EmptyMap], pkgs)
        G == BuildEdges(st.graph, pkgs, st.provides, st.subpkg, pkgs)
    IN [graph |-> G, reverse_graph |-> reverse(G),
        provides |-> st.provides, subpkg |-> st.subpkg]

\* DependencyGraph.__init__: an empty or missing dict builds nothing
New(pkgs) ==
    IF pkgs # <<>> THEN _build_graph(pkgs)
    ELSE [graph |-> EmptyGraph, reverse_graph |-> EmptyGraph,
          provides |-> EmptyMap, subpkg |-> EmptyMap]

\* the edges add_package adds: runtime, then build (no check edges)
AddPackageEdges(G, pkgs, pmap, smap, pkg) ==
    LET G1 == AddDepEdges(G, pkgs, pmap, smap, pkg.name, pkg.depends, RUNTIME)
    IN AddDepEdges(G1, pkgs, pmap, smap, pkg.name,
                   Sorted(build_depends(pkg)), BUILD)

----------------------------------------------------------------------------
(* The records the environment can hand to the constructor and to          *)
(* add_package.                                                            *)

ListFields == {"depends", "makedepends", "makedepends_host", "checkdepends",
               "subpackages"}

\* one declared token: the list it stands in and its value
Slots == (ListFields \X Tokens)
             \cup ({"provides"} \X {RawKey(p) : p \in ProvEntries})

ProvOfKey(k) == CHOOSE p \in ProvEntries : RawKey(p) = k

FieldList(S, f) == Sorted({s[2] : s \in {x \in S : x[1] = f}})

RECURSIVE MapProv(_)
MapProv(keys) ==
    IF keys = <<>> THEN <<>> ELSE <<ProvOfKey(Head(keys))>> \o MapProv(Tail(keys))

RecordOf(name, S) ==
    PackageInfo(name, FieldList(S, "depends"), FieldList(S, "makedepends"), <<>>,
                FieldList(S, "makedepends_host"), FieldList(S, "checkdepends"),
                MapProv(FieldList(S, "provides")), FieldList(S, "subpackages"))

\* the sets of at most k slots drawn from From
RECURSIVE SlotSets(_, _)
SlotSets(From, k) ==
    IF k = 0 THEN {{}}
    ELSE LET P == SlotSets(From, k - 1)
         IN P \cup {S \cup {a} : S \in P, a \in From}

\* every insertion-ordered record map over the names 1..n whose records
\* declare at most k tokens in total, each token a slot of From
RECURSIVE RecordMaps(_, _, _)
RecordMaps(NameSet, From, k) ==
    {<<>>} \cup
    UNION {
      UNION {
        {<<RecordOf(n, S)>> \o rest :
            rest \in RecordMaps(NameSet \ {n}, From, k - Cardinality(S))}
        : S \in SlotSets(From, k)}
      : n \in NameSet}

----------------------------------------------------------------------------
(* Queries.                                                                *)

\* DiGraph.out_edges(package): the targets of the edges leaving package, as
\* the list the loop iterates.  For a package that is no node the loop body
\* never runs.
out_edges(G, package) == Sorted({v \in G.nodes : <<package, v>> \in DOMAIN G.adj})

\* the if/elif chain of _get_direct_deps / _get_direct_rdeps
TypeMatches(dep_type, edge_type) ==
    \/ dep_type = ALL
    \/ dep_type = RUNTIME /\ edge_type = RUNTIME
    \/ dep_type = BUILD /\ edge_type = BUILD
    \/ dep_type = CHECK /\ edge_type = CHECK

\* the list `deps` as the loop appends to it
DirectList(G, package, dep_type) ==
    SelectSeq(out_edges(G, package),
              LAMBDA target : TypeMatches(dep_type, G.adj[<<package, target>>]))

\* DependencyGraph._get_direct_deps: sorted(set(deps)) over self._graph
_get_direct_deps(G, package, dep_type) ==
    Sorted(Range(DirectList(G, package, dep_type)))

\* DependencyGraph._get_direct_rdeps: the same over self._reverse_graph
_get_direct_rdeps(R, package, dep_type) ==
    Sorted(Range(DirectList(R, package, dep_type)))

\* queue.append((dep, depth + 1)) for every dep not yet visited
Enqueue(queue, deps, visited, depth) ==
    queue \o [i \in 1..Len(SelectSeq(deps, LAMBDA d : d \notin visited)) |->
                <<SelectSeq(deps, LAMBDA d : d \notin visited)[i], depth + 1>>]

\* the while loop of _get_recursive_deps; the value is the final visited set
RECURSIVE DepsLoop(_, _, _, _, _)
DepsLoop(G, queue, visited, dep_type, max_depth) ==
    IF queue = <<>> THEN visited
    ELSE LET current == Head(queue)[1]
             depth == Head(queue)[2]
         IN IF current \in visited
            THEN DepsLoop(G, Tail(queue), visited, dep_type, max_depth)
            ELSE IF max_depth >= 0 /\ depth > max_depth
            THEN DepsLoop(G, Tail(queue), visited, dep_type, max_depth)
            ELSE DepsLoop(G,
                          Enqueue(Tail(queue), _get_direct_deps(G, current, dep_type),
                                  visited \cup {current}, depth),
                          visited \cup {current}, dep_type, max_depth)

\* mutant: visited.discard(package) is missing
_get_recursive_deps_KeepRoot(G, package, dep_type, max_depth) ==
    Sorted(DepsLoop(G, <<<<package, 0>>>>, {}, dep_type, max_depth))

\* DependencyGraph._get_recursive_deps
_get_recursive_deps(G, package, dep_type, max_depth) ==
    Sorted(DepsLoop(G, <<<<package, 0>>>>, {}, dep_type, max_depth) \ {package})

\* the while loop of _get_recursive_rdeps
RECURSIVE RdepsLoop(_, _, _, _, _)
RdepsLoop(R, queue, visited, dep_type, max_depth) ==
    IF queue = <<>> THEN visited
    ELSE LET current == Head(queue)[1]
             depth == Head(queue)[2]
         IN IF current \in visited
            THEN RdepsLoop(R, Tail(queue), visited, dep_type, max_depth)
            ELSE IF max_depth >= 0 /\ depth > max_depth
            THEN RdepsLoop(R, Tail(queue), visited, dep_type, max_depth)
            ELSE RdepsLoop(R,
                           Enqueue(Tail(queue), _get_direct_rdeps(R, current, dep_type),
                                   visited \cup {current}, depth),
                           visited \cup {current}, dep_type, max_depth)

\* DependencyGraph._get_recursive_rdeps
_get_recursive_rdeps(R, package, dep_type, max_depth) ==
    Sorted(RdepsLoop(R, <<<<package, 0>>>>, {}, dep_type, max_depth) \ {package})

\* mutant: `if current in visited: continue` is missing
Expands_IgnoreVisited(current, depth, visited, max_depth) ==
    ~(max_depth >= 0 /\ depth > max_depth)

\* the two `continue` tests of the traversal loops: a dequeued node is
\* expanded when it was not visited before and lies within max_depth
Expands(current, depth, visited, max_depth) ==
    /\ current \notin visited
    /\ ~(max_depth >= 0 /\ depth > max_depth)

\* the while loop of _get_recursive_deps, one dequeue per unit of fuel: the
\* nodes whose outgoing edges were enumerated, in order, and whether the
\* queue ran empty before the fuel did
RECURSIVE DepsTrace(_, _, _, _, _, _, _)
DepsTrace(G, queue, visited, expanded, dep_type, max_depth, fuel) ==
    IF queue = <<>> THEN [expanded |-> expanded, done |-> TRUE]
    ELSE IF fuel = 0 THEN [expanded |-> expanded, done |-> FALSE]
    ELSE IF ~Expands(Head(queue)[1], Head(queue)[2], visited, max_depth)
    THEN DepsTrace(G, Tail(queue), visited, expanded, dep_type, max_depth, fuel - 1)
    ELSE DepsTrace(G,
                   Enqueue(Tail(queue), _get_direct_deps(G, Head(queue)[1], dep_type),
                           visited \cup {Head(queue)[1]}, Head(queue)[2]),
                   visited \cup {Head(queue)[1]}, Append(expanded, Head(queue)[1]),
                   dep_type, max_depth, fuel - 1)

\* the same for the while loop of _get_recursive_rdeps
RECURSIVE RdepsTrace(_, _, _, _, _, _, _)
RdepsTrace(R, queue, visited, expanded, dep_type, max_depth, fuel) ==
    IF queue = <<>> THEN [expanded |-> expanded, done |-> TRUE]
    ELSE IF fuel = 0 THEN [expanded |-> expanded, done |-> FALSE]
    ELSE IF ~Expands(Head(queue)[1], Head(queue)[2], visited, max_depth)
    THEN RdepsTrace(R, Tail(queue), visited, expanded, dep_type, max_depth, fuel - 1)
    ELSE RdepsTrace(R,
                    Enqueue(Tail(queue), _get_direct_rdeps(R, Head(queue)[1], dep_type),
                            visited \cup {Head(queue)[1]}, Head(queue)[2]),
                    visited \cup {Head(queue)[1]}, Append(expanded, Head(queue)[1]),
                    dep_type, max_depth, fuel - 1)

\* DependencyGraph.get_dependencies
get_dependencies(G, package, dep_type, recursive, max_depth) ==
    IF package \notin G.nodes THEN <<>>
    ELSE IF recursive THEN _get_recursive_deps(G, package, dep_type, max_depth)
    ELSE _get_direct_deps(G, package, dep_type)

\* DependencyGraph.get_reverse_dependencies
get_reverse_dependencies(R, package, dep_type, recursive, max_depth) ==
    IF package \notin R.nodes THEN <<>>
    ELSE IF recursive THEN _get_recursive_rdeps(R, package, dep_type, max_depth)
    ELSE _get_direct_rdeps(R, package, dep_type)

\* build_tree of get_dependency_tree; every child gets visited.copy()
RECURSIVE build_tree(_, _, _, _, _, _)
build_tree(G, pkg, depth, visited, dep_type, max_depth) ==
    IF depth > max_depth \/ pkg \in visited
    THEN [name |-> pkg, children |-> <<>>, truncated |-> TRUE]
    ELSE LET deps == _get_direct_deps(G, pkg, dep_type)
         IN [name |-> pkg,
             children |-> [i \in 1..Len(deps) |->
                             build_tree(G, deps[i], depth + 1, visited \cup {pkg},
                                        dep_type, max_depth)],
             truncated |-> FALSE]

\* mutant: build_tree without the `pkg in visited` test
RECURSIVE build_tree_NoCycleGuard(_, _, _, _, _, _)
build_tree_NoCycleGuard(G, pkg, depth, visited, dep_type, max_depth) ==
    IF depth > max_depth
    THEN [name |-> pkg, children |-> <<>>, truncated |-> TRUE]
    ELSE LET deps == _get_direct_deps(G, pkg, dep_type)
         IN [name |-> pkg,
             children |-> [i \in 1..Len(deps) |->
                             build_tree_NoCycleGuard(G, deps[i], depth + 1,
                                                     visited \cup {pkg},
                                                     dep_type, max_depth)],
             truncated |-> FALSE]

get_dependency_tree_NoCycleGuard(G, package, dep_type, max_depth) ==
    build_tree_NoCycleGuard(G, package, 0, {}, dep_type, max_depth)

\* DependencyGraph.get_dependency_tree
get_dependency_tree(G, package, dep_type, max_depth) ==
    build_tree(G, package, 0, {}, dep_type, max_depth)

\* successors of u over edges of any kind, in iteration order
Successors(G, u) == out_edges(G, u)

\* breadth-first search of nx.shortest_path(G, source, target): pred maps
\* every node reached so far to the node it was first reached from
RECURSIVE PathSearch(_, _, _)
PathSearch(G, queue, pred) ==
    IF queue = <<>> THEN pred
    ELSE LET u == Head(queue)
             fresh == SelectSeq(Successors(G, u), LAMBDA v : v \notin DOMAIN pred)
         IN PathSearch(G, Tail(queue) \o fresh,
                       [x \in (DOMAIN pred) \cup Range(fresh) |->
                           IF x \in DOMAIN pred THEN pred[x] ELSE u])

\* the path read back from the predecessor map
RECURSIVE PathBack(_, _, _)
PathBack(pred, source, v) ==
    IF v = source THEN <<source>> ELSE Append(PathBack(pred, source, pred[v]), v)

\* nx.shortest_path(G, source, target): the path, or the exception raised
shortest_path(G, source, target) ==
    IF source \notin G.nodes \/ target \notin G.nodes
    THEN [raised |-> "NodeNotFound", path |-> <<>>]
    ELSE LET pred == PathSearch(G, <<source>>, [x \in {source} |-> source])
         IN IF target \in DOMAIN pred
            THEN [raised |-> "", path |-> PathBack(pred, source, target)]
            ELSE [raised |-> "NetworkXNoPath", path |-> <<>>]

\* an Optional[List[str]] return value, or the exception that escapes
ReturnNone == [raised |-> "", some |-> FALSE, val |-> <<>>]

ReturnSome(v) == [raised |-> "", some |-> TRUE, val |-> v]

Raise(e) == [raised |-> e, some |-> FALSE, val |-> <<>>]

\* mutant: NetworkXNoPath is not caught
get_dependency_path_NoCatch(G, source, target) ==
    IF source \notin G.nodes \/ target \notin G.nodes THEN ReturnNone
    ELSE LET r == shortest_path(G, source, target)
         IN IF r.raised = "" THEN ReturnSome(r.path) ELSE Raise(r.raised)

\* depth-first search for some simple path to target; stack holds the
\* partial paths still to extend
RECURSIVE DepthFirstPath(_, _, _)
DepthFirstPath(G, stack, target) ==
    IF stack = <<>> THEN <<>>
    ELSE LET path == Head(stack)
             last == path[Len(path)]
             next == SelectSeq(Successors(G, last), LAMBDA v : v \notin Range(path))
         IN IF last = target THEN path
            ELSE DepthFirstPath(G, [i \in 1..Len(next) |-> Append(path, next[i])]
                                       \o Tail(stack), target)

\* mutant: the first path a depth-first search finds, not a shortest one
get_dependency_path_DepthFirst(G, source, target) ==
    IF source \notin G.nodes \/ target \notin G.nodes THEN ReturnNone
    ELSE LET path == DepthFirstPath(G, <<<<source>>>>, target)
         IN IF path = <<>> THEN ReturnNone ELSE ReturnSome(path)

\* DependencyGraph.get_dependency_path: unknown endpoints and NetworkXNoPath
\* give None
get_dependency_path(G, source, target) ==
    IF source \notin G.nodes \/ target \notin G.nodes THEN ReturnNone
    ELSE LET r == shortest_path(G, source, target)
         IN IF r.raised = "" THEN ReturnSome(r.path)
            ELSE IF r.raised = "NetworkXNoPath" THEN ReturnNone
            ELSE Raise(r.raised)

\* concatenation of a list of lists
RECURSIVE Concat(_)
Concat(ss) == IF ss = <<>> THEN <<>> ELSE Head(ss) \o Concat(Tail(ss))

\* the elementary cycles through `start` that extend the simple path `path`
\* and use no node smaller than start
RECURSIVE CyclesVia(_, _, _)
CyclesVia(G, start, path) ==
    LET last == path[Len(path)]
        closing == IF <<last, start>> \in DOMAIN G.adj THEN <<path>> ELSE <<>>
        next == SelectSeq(Successors(G, last),
                          LAMBDA v : v > start /\ v \notin Range(path))
    IN closing \o Concat([i \in 1..Len(next) |->
                             CyclesVia(G, start, Append(path, next[i]))])

\* nx.simple_cycles(G): every elementary cycle once, self-loops included
simple_cycles(G) ==
    LET nodes == Sorted(G.nodes)
    IN Concat([i \in 1..Len(nodes) |-> CyclesVia(G, nodes[i], <<nodes[i]>>)])

\* mutant: only the first cycle found is reported (nx.find_cycle)
find_cycles_FirstOnly(G) ==
    IF simple_cycles(G) = <<>> THEN <<>> ELSE <<Head(simple_cycles(G))>>

\* DependencyGraph.find_cycles
find_cycles(G) == simple_cycles(G)

\* nx.is_directed_acyclic_graph(G): a topological sort consumes every node
RECURSIVE TopoLeft(_, _)
TopoLeft(G, left) ==
    LET free == {n \in left : \A m \in left : <<m, n>> \notin DOMAIN G.adj}
    IN IF free = {} THEN left ELSE TopoLeft(G, left \ free)

is_directed_acyclic_graph(G) == TopoLeft(G, G.nodes) = {}

\* a float quotient p / q, kept as the pair of its terms
Quotient(p, q) == <<p, q>>

\* nx.density(G): 0 for fewer than two nodes or no edge, else m / (n (n - 1))
density(G) ==
    LET n == Cardinality(G.nodes)
        m == Cardinality(DOMAIN G.adj)
    IN IF m = 0 \/ n <= 1 THEN Quotient(0, 1) ELSE Quotient(m, n * (n - 1))

\* the nodes joined to a node of S by edges taken in either direction
RECURSIVE WeakComponent(_, _)
WeakComponent(G, S) ==
    LET T == S \cup {v \in G.nodes : \E u \in S : <<u, v>> \in DOMAIN G.adj
                                                    \/ <<v, u>> \in DOMAIN G.adj}
    IN IF T = S THEN S ELSE WeakComponent(G, T)

\* nx.number_weakly_connected_components(G)
RECURSIVE CountComponents(_, _)
CountComponents(G, left) ==
    IF left = {} THEN 0
    ELSE LET n == CHOOSE x \in left : TRUE
         IN 1 + CountComponents(G, left \ WeakComponent(G, {n}))

number_weakly_connected_components(G) == CountComponents(G, G.nodes)

\* mutant: the division is not guarded by n > 0
avg_degree_Unguarded(G) == Quotient(Cardinality(DOMAIN G.adj), Cardinality(G.nodes))

\* sum(d for _, d in G.in_degree()) / n  if n > 0 else 0; every edge counts
\* once in the in-degrees and once in the out-degrees
avg_degree(G) ==
    IF Cardinality(G.nodes) > 0
    THEN Quotient(Cardinality(DOMAIN G.adj), Cardinality(G.nodes))
    ELSE Quotient(0, 1)

\* DependencyGraph.get_statistics
get_statistics(G) ==
    [nodes |-> Cardinality(G.nodes),
     edges |-> Cardinality(DOMAIN G.adj),
     density |-> density(G),
     is_dag |-> is_directed_acyclic_graph(G),
     weakly_connected_components |-> number_weakly_connected_components(G),
     avg_in_degree |-> avg_degree(G),
     avg_out_degree |-> avg_degree(G)]

\* the maximum of a list of naturals, 0 for the empty list
RECURSIVE MaxOf(_)
MaxOf(s) ==
    IF s = <<>> THEN 0
    ELSE IF Head(s) > MaxOf(Tail(s)) THEN Head(s) ELSE MaxOf(Tail(s))

\* DependencyGraph.get_dependency_depth: the longest of the shortest paths to
\* the recursive dependencies
get_dependency_depth(G, package) ==
    IF package \notin G.nodes THEN 0
    ELSE LET deps == get_dependencies(G, package, ALL, TRUE, 0 - 1)
         IN MaxOf([i \in 1..Len(deps) |->
                     LET path == get_dependency_path(G, package, deps[i])
                     IN IF path.some /\ path.val # <<>>
                        THEN Len(path.val) - 1 ELSE 0])

\* sorted(counts.items(), key=lambda x: x[1], reverse=True): a stable sort,
\* equal counts keep the order of the dict
RECURSIVE SortedByCountDesc(_)
SortedByCountDesc(items) ==
    IF items = <<>> THEN <<>>
    ELSE LET rest == SortedByCountDesc(Tail(items))
             ahead == SelectSeq(rest, LAMBDA x : x[2] > Head(items)[2])
             behind == SelectSeq(rest, LAMBDA x : x[2] <= Head(items)[2])
         IN ahead \o <<Head(items)>> \o behind

\* s[:n] for n >= 0
Take(s, n) == SubSeq(s, 1, IF n < Len(s) THEN n ELSE Len(s))

\* DependencyGraph.get_most_depended: counts the direct reverse dependencies
get_most_depended(pkgs, R, top_n) ==
    Take(SortedByCountDesc(
             [i \in DOMAIN pkgs |->
                <<pkgs[i].name,
                  Len(get_reverse_dependencies(R, pkgs[i].name, ALL, FALSE, 0 - 1))>>]),
         top_n)

\* DependencyGraph.get_most_dependencies: counts the recursive dependencies
get_most_dependencies(pkgs, G, top_n) ==
    Take(SortedByCountDesc(
             [i \in DOMAIN pkgs |->
                <<pkgs[i].name,
                  Len(get_dependencies(G, pkgs[i].name, ALL, TRUE, 0 - 1))>>]),
         top_n)

\* the names of the records, in dict order
NameList(pkgs) == [i \in DOMAIN pkgs |-> pkgs[i].name]

\* DependencyGraph.get_leaf_packages: the records without a direct reverse
\* dependency
get_leaf_packages(pkgs, R) ==
    Sorted(Range(SelectSeq(NameList(pkgs),
        LAMBDA pkg : get_reverse_dependencies(R, pkg, ALL, FALSE, 0 - 1) = <<>>)))

\* DependencyGraph.get_root_packages: the records without a direct dependency
get_root_packages(pkgs, G) ==
    Sorted(Range(SelectSeq(NameList(pkgs),
        LAMBDA pkg : get_dependencies(G, pkg, ALL, FALSE, 0 - 1) = <<>>)))

\* nodes = set(packages); nodes.update(deps) for every listed package
SubgraphNodes(G, pkglist, include_deps, max_depth) ==
    Range(pkglist) \cup
    (IF include_deps
     THEN UNION {Range(get_dependencies(G, pkglist[i], ALL, TRUE, max_depth))
                 : i \in DOMAIN pkglist}
     ELSE {})

\* the orders a set can be iterated in
Orders(S) == {s \in [1..Cardinality(S) -> S] : Range(s) = S}

\* DependencyGraph.get_subgraph: a new graph over the records of the chosen
\* nodes; `order` is the order the node set was iterated in
get_subgraph(pkgs, G, pkglist, include_deps, max_depth, order) ==
    New([i \in 1..Len(order) |-> Lookup(pkgs, order[i])])

\* DependencyGraph.to_dict: node ids in insertion order (the dict order of the
\* records) and the edges with their type
to_dict(pkgs, G) ==
    [nodes |-> SelectSeq(NameList(pkgs), LAMBDA n : n \in G.nodes),
     edges |-> {[source |-> e[1], target |-> e[2], type |-> G.adj[e]]
                : e \in DOMAIN G.adj}]

----------------------------------------------------------------------------
(* Text (src/src/dep_map/parser.py).  A Python str is the sequence of its  *)
(* characters, a character a string of length one.  The graph above keeps  *)
(* names as naturals; the parser below reads and writes real text.         *)

Lower == {"a", "b", "c", "d", "e", "f", "g", "h", "i", "j", "k", "l", "m",
          "n", "o", "p", "q", "r", "s", "t", "u", "v", "w", "x", "y", "z"}

Upper == {"A", "B", "C", "D", "E", "F", "G", "H", "I", "J", "K", "L", "M",
          "N", "O", "P", "Q", "R", "S", "T", "U", "V", "W", "X", "Y", "Z"}

Digits == <<"0", "1", "2", "3", "4", "5", "6", "7", "8", "9">>

\* [a-zA-Z0-9]
IsAlnum(c) == c \in Lower \cup Upper \cup Range(Digits)

\* \w
IsWord(c) == IsAlnum(c) \/ c = "_"

\* [a-zA-Z_]
IsIdentStart(c) == c \in Lower \cup Upper \cup {"_"}

\* \d
IsDigit(c) == c \in Range(Digits)

\* \s, and the characters str.strip() and str.split() take as blank
IsSpace(c) == c \in {" ", "\t", "\n"}

\* s[i:] for an index counted from 1
From(s, i) == SubSeq(s, i, Len(s))

\* s[:i - 1]
Before(s, i) == SubSeq(s, 1, i - 1)

\* s.startswith(p)
StartsWith(s, p) == Len(p) <= Len(s) /\ SubSeq(s, 1, Len(p)) = p

\* s.endswith(p)
EndsWith(s, p) == Len(p) <= Len(s) /\ SubSeq(s, Len(s) - Len(p) + 1, Len(s)) = p

\* the positions where sub occurs in s
Occurrences(s, sub) ==
    {i \in 1..(Len(s) - Len(sub) + 1) : SubSeq(s, i, i + Len(sub) - 1) = sub}

\* sub in s
Contains(s, sub) == Occurrences(s, sub) # {}

\* s.find(sub) + 1: the first position of sub, 0 when there is none
Find(s, sub) == IF Contains(s, sub) THEN Min(Occurrences(s, sub)) ELSE 0

\* s.split(sep) for a non-empty separator: empty pieces are kept
RECURSIVE Split(_, _)
Split(s, sep) ==
    IF ~Contains(s, sep) THEN <<s>>
    ELSE <<Before(s, Find(s, sep))>> \o Split(From(s, Find(s, sep) + Len(sep)), sep)

\* sep.join(parts)
RECURSIVE Join(_, _)
Join(parts, sep) ==
    IF parts = <<>> THEN <<>>
    ELSE IF Len(parts) = 1 THEN parts[1]
    ELSE parts[1] \o sep \o Join(Tail(parts), sep)

\* s.replace(old, new)
RECURSIVE Replace(_, _, _)
Replace(s, old, new) == Join(Split(s, old), new)

\* s.lstrip(chars) / s.rstrip(chars) / s.strip(chars) for a character set
RECURSIVE LStripSet(_, _)
LStripSet(s, C) == IF s # <<>> /\ Head(s) \in C THEN LStripSet(Tail(s), C) ELSE s

RECURSIVE RStripSet(_, _)
RStripSet(s, C) ==
    IF s # <<>> /\ s[Len(s)] \in C THEN RStripSet(SubSeq(s, 1, Len(s) - 1), C) ELSE s

StripSet(s, C) == RStripSet(LStripSet(s, C), C)

\* s.strip()
Strip(s) == StripSet(s, {" ", "\t", "\n"})

\* s.strip('"\'')
StripQuotes(s) == StripSet(s, {"\"", "'"})

\* the length of the longest prefix of s whose characters satisfy Test
Span(s, Test(_)) ==
    LET bad == {i \in 1..Len(s) : ~Test(s[i])}
    IN IF bad = {} THEN Len(s) ELSE Min(bad) - 1

\* s.split(): the runs of non-blank characters
RECURSIVE SplitWs(_)
SplitWs(s) ==
    LET t == LStripSet(s, {" ", "\t", "\n"})
        n == Span(t, LAMBDA c : ~IsSpace(c))
    IN IF t = <<>> THEN <<>> ELSE <<SubSeq(t, 1, n)>> \o SplitWs(From(t, n + 1))

----------------------------------------------------------------------------
(* BashVariableContext: the dict `variables` as a function from names to   *)
(* values.                                                                 *)

S_CHOST == <<"C", "H", "O", "S", "T">>
S_CTARGET == <<"C", "T", "A", "R", "G", "E", "T">>
S_CBUILD == <<"C", "B", "U", "I", "L", "D">>
S_CARCH == <<"C", "A", "R", "C", "H">>
S_CTARGET_ARCH == S_CTARGET \o <<"_", "A", "R", "C", "H">>
S_BOOTSTRAP == <<"B", "O", "O", "T", "S", "T", "R", "A", "P">>
S_CROSS_COMPILE == <<"C", "R", "O", "S", "S", "_", "C", "O", "M", "P", "I", "L", "E">>

\* BashVariableContext._defaults: the names preset to ""
_defaults ==
    {S_CHOST, S_CTARGET, S_CBUILD, S_CARCH, S_CTARGET_ARCH, S_BOOTSTRAP, S_CROSS_COMPILE}

\* BashVariableContext(): no variable set
BashVariableContext == EmptyMap

\* BashVariableContext.get(name, default)
CtxGetOr(ctx, name, default) ==
    IF name \in DOMAIN ctx THEN ctx[name]
    ELSE IF name \in _defaults THEN <<>> ELSE default

\* BashVariableContext.get(name)
CtxGet(ctx, name) == CtxGetOr(ctx, name, <<>>)

\* BashVariableContext.set(name, value)
CtxSet(ctx, name, value) == MapSet(ctx, name, value)

\* The regular expression built from a shell pattern is a list of atoms: a
\* character ("." matches any character), starred or not, the star greedy or
\* lazy.  Patterns hold no regex metacharacter other than ".", "*" and "?".
RECURSIVE RegexAtoms(_)
RegexAtoms(re) ==
    IF re = <<>> THEN <<>>
    ELSE IF Len(re) >= 3 /\ re[2] = "*" /\ re[3] = "?"
    THEN <<[ch |-> re[1], star |-> TRUE, lazy |-> TRUE]>> \o RegexAtoms(From(re, 4))
    ELSE IF Len(re) >= 2 /\ re[2] = "*"
    THEN <<[ch |-> re[1], star |-> TRUE, lazy |-> FALSE]>> \o RegexAtoms(From(re, 3))
    ELSE <<[ch |-> re[1], star |-> FALSE, lazy |-> FALSE]>> \o RegexAtoms(Tail(re))

AtomMatches(atom, c) == atom.ch = "." \/ atom.ch = c

\* the positions just after a match of atoms[i..] that starts at s[j], in
\* the order a backtracking matcher finds them
RECURSIVE MatchEnds(_, _, _, _)
MatchEnds(atoms, i, s, j) ==
    IF i > Len(atoms) THEN <<j>>
    ELSE IF ~atoms[i].star
    THEN IF j <= Len(s) /\ AtomMatches(atoms[i], s[j])
         THEN MatchEnds(atoms, i + 1, s, j + 1) ELSE <<>>
    ELSE LET k == Span(From(s, j), LAMBDA c : AtomMatches(atoms[i], c))
             try == [n \in 1..(k + 1) |->
                       MatchEnds(atoms, i + 1, s,
                                 j + (IF atoms[i].lazy THEN n - 1 ELSE k + 1 - n))]
         IN Concat(try)

\* pattern.replace('*', '.*').replace('?', '.')
ShellToRegex(pattern) == Replace(Replace(pattern, <<"*">>, <<".", "*">>), <<"?">>, <<".">>)

\* regex_pattern.replace(".*", ".*?")
NonGreedy(re) == Replace(re, <<".", "*">>, <<".", "*", "?">>)

\* the regular expression of a shell pattern, made non-greedy for the
\* shortest match
PatternRegex(pattern, longest) ==
    Then(ShellToRegex(pattern), LAMBDA re : IF longest THEN re ELSE NonGreedy(re))

\* BashVariableContext._expand_remove_suffix: re.search('(regex)$', value)
\* takes the leftmost start from which the regex matches up to the end
_expand_remove_suffix(ctx, varname, pattern, longest) ==
    Then(CtxGet(ctx, varname), LAMBDA value :
    Then(RegexAtoms(PatternRegex(pattern, longest)), LAMBDA atoms :
      LET starts == {i \in 1..(Len(value) + 1) :
                       (Len(value) + 1) \in Range(MatchEnds(atoms, 1, value, i))}
      IN IF value = <<>> \/ pattern = <<>> \/ starts = {} THEN value
         ELSE Before(value, Min(starts))))

\* BashVariableContext._expand_remove_prefix: re.search('^(regex)', value)
_expand_remove_prefix(ctx, varname, pattern, longest) ==
    Then(CtxGet(ctx, varname), LAMBDA value :
    Then(MatchEnds(RegexAtoms(PatternRegex(pattern, longest)), 1, value, 1), LAMBDA ends :
      IF value = <<>> \/ pattern = <<>> \/ ends = <<>> THEN value
      ELSE From(value, Head(ends))))

\* the handler of one substitution of expand: the text put in place of
\* ${name OP arg} and the context it leaves (only := writes to it)
ApplyParam(ctx, op, name, arg) ==
    Then(CtxGet(ctx, name), LAMBDA value :
      CASE op \in {<<"%", "%">>, <<"%">>} ->
              [ctx |-> ctx, text |-> _expand_remove_suffix(ctx, name, arg, Len(op) = 2)]
        [] op \in {<<"#", "#">>, <<"#">>} ->
              [ctx |-> ctx, text |-> _expand_remove_prefix(ctx, name, arg, Len(op) = 2)]
        [] op = <<":", "-">> ->
              [ctx |-> ctx, text |-> IF value # <<>> THEN value ELSE arg]
        [] op = <<":", "=">> ->
              IF value = <<>>
              THEN [ctx |-> CtxSet(ctx, name, arg), text |-> arg]
              ELSE [ctx |-> ctx, text |-> value]
        [] OTHER -> [ctx |-> ctx, text |-> value])

\* a match of \$\{(\w+)OP([^}]*)\} (for OP = "" of \$\{(\w+)\}) at s[i]
ParamMatch(s, i, op) ==
    Then(IF i + 2 <= Len(s) THEN Span(From(s, i + 2), IsWord) ELSE 0, LAMBDA n :
    Then(i + 2 + n + Len(op), LAMBDA a :
    Then(IF a <= Len(s) THEN Find(From(s, a), <<"}">>) ELSE 0, LAMBDA close :
      IF /\ i + 1 <= Len(s) /\ s[i] = "$" /\ s[i + 1] = "{"
         /\ n >= 1
         /\ a - 1 <= Len(s) /\ SubSeq(s, i + 2 + n, a - 1) = op
         /\ close > 0
         /\ op = <<>> => close = 1
      THEN [ok |-> TRUE, name |-> SubSeq(s, i + 2, i + 1 + n),
            arg |-> SubSeq(s, a, a + close - 2), end |-> a + close - 1]
      ELSE [ok |-> FALSE, name |-> <<>>, arg |-> <<>>, end |-> i])))

\* the first position at or after i that holds no blank
SkipWs(s, i) == IF i > Len(s) THEN i ELSE i + Span(From(s, i), IsSpace)

\* the length of the match of [a-zA-Z_]\w* at s[i], 0 for none
IdentLen(s, i) ==
    IF i <= Len(s) /\ IsIdentStart(s[i]) THEN Span(From(s, i), IsWord) ELSE 0

\* the first position at or after i that holds a "$", Len(s) + 1 for none
NextDollar(s, i) ==
    LET at == {j \in i..Len(s) : s[j] = "$"}
    IN IF at = {} THEN Len(s) + 1 ELSE Min(at)

\* re.sub of one ${name OP arg} form over s[i..], matches taken left to right
RECURSIVE ParamSub(_, _, _, _)
ParamSub(ctx, s, i, op) ==
    Then(NextDollar(s, i), LAMBDA d :
      IF d > Len(s) THEN [ctx |-> ctx, text |-> From(s, i)]
      ELSE Then(ParamMatch(s, d, op), LAMBDA m :
        IF m.ok
        THEN Then(ApplyParam(ctx, op, m.name, m.arg), LAMBDA r :
             Then(ParamSub(r.ctx, s, m.end + 1, op), LAMBDA rest :
               [ctx |-> rest.ctx, text |-> SubSeq(s, i, d - 1) \o r.text \o rest.text]))
        ELSE Then(ParamSub(ctx, s, d + 1, op), LAMBDA rest :
               [ctx |-> rest.ctx, text |-> SubSeq(s, i, d) \o rest.text])))

\* re.sub of \$([a-zA-Z_]\w*)(?![(\w]) over s[i..]: a name directly followed
\* by "(" is no reference
RECURSIVE VarSub(_, _, _)
VarSub(ctx, s, i) ==
    Then(NextDollar(s, i), LAMBDA d :
    Then(IdentLen(s, d + 1), LAMBDA n :
      IF d > Len(s) THEN From(s, i)
      ELSE IF n >= 1 /\ ~(d + n + 1 <= Len(s) /\ s[d + n + 1] = "(")
      THEN SubSeq(s, i, d - 1) \o CtxGet(ctx, SubSeq(s, d + 1, d + n))
               \o VarSub(ctx, s, d + n + 1)
      ELSE SubSeq(s, i, d) \o VarSub(ctx, s, d + 1)))

\* the forms expand rewrites, in the order it rewrites them
ExpandOps == <<<<"%", "%">>, <<"%">>, <<"#", "#">>, <<"#">>, <<":", "-">>, <<":", "=">>, <<>>>>

RECURSIVE ExpandPasses(_, _, _)
ExpandPasses(ctx, s, k) ==
    IF k > Len(ExpandOps) THEN [ctx |-> ctx, text |-> s]
    ELSE Then(ParamSub(ctx, s, 1, ExpandOps[k]),
              LAMBDA r : ExpandPasses(r.ctx, r.text, k + 1))

\* BashVariableContext.expand: the expanded text and the context it leaves
expand(ctx, value) ==
    Then(ExpandPasses(ctx, value, 1),
         LAMBDA r : [ctx |-> r.ctx, text |-> VarSub(r.ctx, r.text, 1)])

----------------------------------------------------------------------------
(* APKBUILDParser: pass 1, the variable assignments.                       *)

\* an Optional[str]
NoStr == [some |-> FALSE, val |-> <<>>]

SomeStr(v) == [some |-> TRUE, val |-> v]

S_pkgname == <<"p", "k", "g", "n", "a", "m", "e">>

\* the fields of an APKBUILDParser after parse_content reset them
NewParser == [_ctx |-> BashVariableContext, _first_pkgname |-> NoStr]

\* value[1:-1] when value starts and ends with the same quote character
Unquote(value) ==
    IF value # <<>> /\ Head(value) = "\"" /\ value[Len(value)] = "\""
    THEN SubSeq(value, 2, Len(value) - 1)
    ELSE IF value # <<>> /\ Head(value) = "'" /\ value[Len(value)] = "'"
    THEN SubSeq(value, 2, Len(value) - 1)
    ELSE value

\* re.match(r'^([a-zA-Z_]\w*)=(.*)$', line)
AssignMatch(line) ==
    LET n == IdentLen(line, 1)
    IN IF n >= 1 /\ n + 1 <= Len(line) /\ line[n + 1] = "="
       THEN [ok |-> TRUE, varname |-> SubSeq(line, 1, n), value |-> From(line, n + 2)]
       ELSE [ok |-> FALSE, varname |-> <<>>, value |-> <<>>]

\* mutant: every assignment to pkgname is remembered, the last one wins
ParseAssign_LastWins(st, varname, raw) ==
    Then(Unquote(Strip(raw)), LAMBDA value :
    Then(expand(st._ctx, value), LAMBDA e :
      [_ctx |-> CtxSet(e.ctx, varname, e.text),
       _first_pkgname |-> IF varname = S_pkgname THEN SomeStr(e.text)
                          ELSE st._first_pkgname]))

\* var=value: quotes removed, value expanded, the first pkgname remembered
ParseAssign(st, varname, raw) ==
    Then(Unquote(Strip(raw)), LAMBDA value :
    Then(expand(st._ctx, value), LAMBDA e :
      [_ctx |-> CtxSet(e.ctx, varname, e.text),
       _first_pkgname |->
            IF varname = S_pkgname /\ ~st._first_pkgname.some
            THEN IF ~Contains(value, <<"$">>) THEN SomeStr(e.text)
                 ELSE IF e.text # <<>> /\ ~Contains(e.text, <<"$">>) THEN SomeStr(e.text)
                 ELSE NoStr
            ELSE st._first_pkgname]))

\* \s*&&\s*([a-zA-Z_]\w*)=([^\s|]+) at s[i]: the position after it, 0 for none
CondThen(s, i) ==
    Then(SkipWs(s, i), LAMBDA a :
    Then(SkipWs(s, a + 2), LAMBDA b :
    Then(IdentLen(s, b), LAMBDA n :
    Then(IF b + n + 1 <= Len(s)
         THEN Span(From(s, b + n + 1), LAMBDA c : ~IsSpace(c) /\ c # "|") ELSE 0, LAMBDA v :
      IF /\ a + 1 <= Len(s) /\ s[a] = "&" /\ s[a + 1] = "&"
         /\ n >= 1
         /\ b + n <= Len(s) /\ s[b + n] = "="
         /\ v >= 1
      THEN b + n + 1 + v ELSE 0))))

\* (?:\s*\|\|\s*([a-zA-Z_]\w*)=(.+))? at s[i]
CondElse(s, i) ==
    Then(SkipWs(s, i), LAMBDA a :
    Then(SkipWs(s, a + 2), LAMBDA b :
    Then(IdentLen(s, b), LAMBDA n :
      IF /\ a + 1 <= Len(s) /\ s[a] = "|" /\ s[a + 1] = "|"
         /\ n >= 1
         /\ b + n + 1 <= Len(s) /\ s[b + n] = "="
      THEN [ok |-> TRUE, varname |-> SubSeq(s, b, b + n - 1), value |-> From(s, b + n + 1)]
      ELSE [ok |-> FALSE, varname |-> <<>>, value |-> <<>>])))

\* re.match of the conditional assignment [ test ] && var=a || var=b: the
\* greedy \[.*\] takes the last "]" the rest of the pattern can follow
CondMatch(line) ==
    Then([p \in 2..Len(line) |-> IF line[p] = "]" THEN CondThen(line, p + 1) ELSE 0], LAMBDA after :
      LET closes == {p \in DOMAIN after : after[p] > 0}
      IN IF line # <<>> /\ Head(line) = "[" /\ closes # {}
         THEN [ok |-> TRUE,
               else |-> CondElse(line, after[CHOOSE q \in closes : \A r \in closes : r <= q])]
         ELSE [ok |-> FALSE, else |-> [ok |-> FALSE, varname |-> <<>>, value |-> <<>>]])

\* re.match(r'^:\s*"\$\{([a-zA-Z_]\w*):=([^}]*)\}"', line)
DefaultMatch(line) ==
    Then(SkipWs(line, 2), LAMBDA a :
    Then(IdentLen(line, a + 3), LAMBDA n :
    Then(a + 3 + n, LAMBDA b :
    Then(IF b + 2 <= Len(line) THEN Find(From(line, b + 2), <<"}">>) ELSE 0, LAMBDA close :
      IF /\ line # <<>> /\ Head(line) = ":"
         /\ a + 2 <= Len(line) /\ SubSeq(line, a, a + 2) = <<"\"", "$", "{">>
         /\ n >= 1
         /\ b + 1 <= Len(line) /\ SubSeq(line, b, b + 1) = <<":", "=">>
         /\ close > 0
         /\ b + 2 + close <= Len(line) /\ line[b + 2 + close] = "\""
      THEN [ok |-> TRUE, varname |-> SubSeq(line, a + 3, b - 1),
            default |-> SubSeq(line, b + 2, b + close)]
      ELSE [ok |-> FALSE, varname |-> <<>>, default |-> <<>>]))))

\* mutant: the right-hand side is stored as written
SetExpanded_AsWritten(st, varname, value) ==
    [st EXCEPT !._ctx = CtxSet(st._ctx, varname, value)]

\* the right-hand side of the || branch of a conditional assignment
SetExpanded(st, varname, value) ==
    Then(expand(st._ctx, value), LAMBDA e :
      [st EXCEPT !._ctx = CtxSet(e.ctx, varname, e.text)])

\* one turn of the loop of _parse_variables
ParseLine(st, rawline) ==
    Then(Strip(rawline), LAMBDA line :
      IF line = <<>> \/ Head(line) = "#" THEN st
      ELSE Then(AssignMatch(line), LAMBDA am :
        IF am.ok THEN ParseAssign(st, am.varname, am.value)
        ELSE Then(CondMatch(line), LAMBDA cm :
          IF cm.ok
          THEN IF cm.else.ok
               THEN SetExpanded(st, cm.else.varname, StripQuotes(Strip(cm.else.value)))
               ELSE st
          ELSE Then(DefaultMatch(line), LAMBDA dm :
            IF dm.ok /\ CtxGet(st._ctx, dm.varname) = <<>>
            THEN [st EXCEPT !._ctx = CtxSet(st._ctx, dm.varname, dm.default)]
            ELSE st))))

\* the loop of _parse_variables over the lines still to read
RECURSIVE ParseLines(_, _)
ParseLines(st, lines) ==
    IF lines = <<>> THEN st
    ELSE Then(ParseLine(st, Head(lines)), LAMBDA next : ParseLines(next, Tail(lines)))

\* APKBUILDParser._parse_variables
_parse_variables(st, content) == ParseLines(st, Split(content, <<"\n">>))

----------------------------------------------------------------------------
(* APKBUILDParser: pass 2, the dependency lists.                           *)

\* re.split(r'[><=~]', dep)[0]
CutAtVersion(dep) == SubSeq(dep, 1, Span(dep, LAMBDA c : c \notin {">", "<", "=", "~"}))

\* dep.split('::')[0] if '::' in dep
CutAtColons(dep) ==
    IF Contains(dep, <<":", ":">>) THEN Before(dep, Find(dep, <<":", ":">>)) ELSE dep

\* re.sub(r'\([^)]*\)', '', dep): every "(" that a ")" follows goes with the
\* text up to the nearest ")"
RECURSIVE DropParens(_)
DropParens(dep) ==
    Then(Find(dep, <<"(">>), LAMBDA open :
    Then(IF open > 0 THEN Find(From(dep, open + 1), <<")">>) ELSE 0, LAMBDA close :
      IF open = 0 \/ close = 0 THEN dep
      ELSE Before(dep, open) \o DropParens(From(dep, open + close + 1))))

\* the tail of _clean_dep_name: None for a name that is empty or does not
\* start with a letter or a digit
CleanedName(cut) == IF cut = <<>> \/ ~IsAlnum(Head(cut)) THEN NoStr ELSE SomeStr(cut)

\* mutant: the version constraint is kept
_clean_dep_name_KeepVersion(dep) ==
    IF dep = <<>> \/ dep \in {<<"\\">>, <<"\"">>, <<"'">>, <<"(">>, <<")">>, <<" ">>}
    THEN NoStr
    ELSE IF Head(dep) = "!" THEN NoStr
    ELSE Then(Strip(DropParens(CutAtColons(dep))), CleanedName)

\* APKBUILDParser._clean_dep_name: the cleaned name, or None
_clean_dep_name(dep) ==
    IF dep = <<>> \/ dep \in {<<"\\">>, <<"\"">>, <<"'">>, <<"(">>, <<")">>, <<" ">>}
    THEN NoStr
    ELSE IF Head(dep) = "!" THEN NoStr
    ELSE Then(Strip(DropParens(CutAtColons(CutAtVersion(dep)))), CleanedName)

\* line[:line.find('#')]
BeforeHash(line) == Then(Find(line, <<"#">>), LAMBDA p : IF p > 0 THEN Before(line, p) ELSE line)

\* line[:line.find('#')] for every line, the lines joined by a blank
StripComments(deps_str) ==
    Then(Split(deps_str, <<"\n">>), LAMBDA lines :
      Join([i \in DOMAIN lines |-> BeforeHash(lines[i])], <<" ">>))

S_dollar_pkgname == <<"$">> \o S_pkgname

\* the body of the token loop of _parse_deps_string: the name that is
\* appended, or None when the token is skipped
CleanToken(token, pkgname) ==
    IF Contains(token, <<"$">>) /\ ~(pkgname # <<>> /\ Contains(token, S_dollar_pkgname))
    THEN NoStr
    ELSE _clean_dep_name(IF Contains(token, <<"$">>)
                         THEN Replace(token, S_dollar_pkgname, pkgname) ELSE token)

\* the values of the entries of a list of Optional[str] that are not None
Somes(opts) ==
    LET kept == SelectSeq(opts, LAMBDA o : o.some)
    IN [i \in DOMAIN kept |-> kept[i].val]

\* APKBUILDParser._parse_deps_string: the list, and the context expand left
_parse_deps_string(ctx, deps_str, pkgname) ==
    Then(expand(ctx, StripComments(deps_str)), LAMBDA e :
    Then(SplitWs(e.text), LAMBDA tokens :
      [ctx |-> e.ctx,
       deps |-> Somes([i \in DOMAIN tokens |-> CleanToken(tokens[i], pkgname)])]))

\* the multi-line branch of _extract_multiline_var: the lines after the one
\* that opened the quote, up to the first line that holds the quote
RECURSIVE QuotedLines(_, _)
QuotedLines(lines, quote) ==
    IF lines = <<>> THEN <<>>
    ELSE Then(Find(Head(lines), quote), LAMBDA p :
      IF p > 0 THEN <<Before(Head(lines), p)>>
      ELSE <<Head(lines)>> \o QuotedLines(Tail(lines), quote))

\* the value of the line lines[i], which starts with `varname=`
MultilineValue(lines, i, varname) ==
    Then(From(lines[i], Len(varname) + 2), LAMBDA value :
      IF value # <<>> /\ Head(value) \in {"\"", "'"}
      THEN IF Len(value) > 1 /\ value[Len(value)] = Head(value)
           THEN SubSeq(value, 2, Len(value) - 1)
           ELSE Join(<<Tail(value)>> \o QuotedLines(From(lines, i + 1), <<Head(value)>>),
                     <<" ">>)
      ELSE value)

\* APKBUILDParser._extract_multiline_var: the value of the first line
\* `varname=...` of the raw content
_extract_multiline_var(content, varname) ==
    Then(Split(content, <<"\n">>), LAMBDA lines :
    Then({i \in DOMAIN lines : StartsWith(lines[i], varname \o <<"=">>)}, LAMBDA hits :
      IF hits = {} THEN <<>> ELSE MultilineValue(lines, Min(hits), varname)))

\* the second half of _extract_dep_list: the raw multi-line definition
ExtractRaw(ctx, content, varname, pkgname) ==
    Then(_extract_multiline_var(content, varname), LAMBDA deps_str :
      IF deps_str # <<>> THEN _parse_deps_string(ctx, deps_str, pkgname)
      ELSE [ctx |-> ctx, deps |-> <<>>])

\* APKBUILDParser._extract_dep_list: the context value if it gives any
\* name, else the raw multi-line definition
_extract_dep_list(ctx, content, varname, pkgname) ==
    Then(CtxGet(ctx, varname), LAMBDA value :
    Then(IF value # <<>> /\ Strip(value) # <<>>
         THEN _parse_deps_string(ctx, value, pkgname)
         ELSE [ctx |-> ctx, deps |-> <<>>], LAMBDA first :
      IF first.deps # <<>> THEN first
      ELSE ExtractRaw(first.ctx, content, varname, pkgname)))

\* the body of the loop of _extract_subpackages
CleanSubpkg(subpkg, pkgname) ==
    IF StartsWith(subpkg, S_dollar_pkgname) /\ ~StartsWith(subpkg, S_dollar_pkgname \o <<"-">>)
    THEN NoStr
    ELSE Then(IF StartsWith(subpkg, S_dollar_pkgname \o <<"-">>)
              THEN pkgname \o From(subpkg, 9) ELSE subpkg, LAMBDA named :
         Then(Find(named, <<":">>), LAMBDA p :
         Then(IF p > 0 THEN Before(named, p) ELSE named, LAMBDA cut :
           IF cut # <<>> /\ cut # pkgname THEN SomeStr(cut) ELSE NoStr)))

S_subpackages == <<"s", "u", "b", "p", "a", "c", "k", "a", "g", "e", "s">>

\* APKBUILDParser._extract_subpackages
_extract_subpackages(ctx, content, pkgname) ==
    Then(_extract_dep_list(ctx, content, S_subpackages, pkgname), LAMBDA raw :
      [ctx |-> raw.ctx,
       deps |-> Somes([i \in DOMAIN raw.deps |-> CleanSubpkg(raw.deps[i], pkgname)])])

----------------------------------------------------------------------------
(* APKBUILDParser: pass 2, the release.  Python's eval is modelled for      *)
(* the characters _eval_shell_arithmetic lets through: decimal literals,   *)
(* + - * / // ** and blanks.  A float is the exact quotient num/den, which *)
(* int() truncates towards zero.                                           *)

\* the value of a decimal digit
DigitVal(c) == (CHOOSE i \in DOMAIN Digits : Digits[i] = c) - 1

\* int(s) of a string of decimal digits
RECURSIVE StrToInt(_)
StrToInt(s) ==
    IF s = <<>> THEN 0 ELSE 10 * StrToInt(Before(s, Len(s))) + DigitVal(s[Len(s)])

\* str(n) of a natural number
RECURSIVE IntToStr(_)
IntToStr(n) ==
    IF n < 10 THEN <<Digits[n + 1]>> ELSE IntToStr(n \div 10) \o <<Digits[(n % 10) + 1]>>

\* str.isdigit over the ASCII characters
isdigit(s) == s # <<>> /\ \A i \in DOMAIN s : IsDigit(s[i])

\* the token of a decimal literal
NumToken(lit) ==
    Then(StrToInt(lit), LAMBDA val :
      [op |-> IF Len(lit) > 1 /\ Head(lit) = "0" /\ val # 0 THEN "bad" ELSE "num", val |-> val])

\* the tokens of a Python expression; "bad" stands for a literal Python
\* rejects (a nonzero number with a leading zero)
RECURSIVE Tokenize(_)
Tokenize(s) ==
    IF s = <<>> THEN <<>>
    ELSE IF IsSpace(Head(s)) THEN Tokenize(Tail(s))
    ELSE IF IsDigit(Head(s))
    THEN Then(Span(s, IsDigit), LAMBDA n :
           <<NumToken(SubSeq(s, 1, n))>> \o Tokenize(From(s, n + 1)))
    ELSE IF Len(s) > 1 /\ s[1] = s[2] /\ s[1] \in {"*", "/"}
    THEN <<[op |-> s[1] \o s[2], val |-> 0]>> \o Tokenize(From(s, 3))
    ELSE <<[op |-> Head(s), val |-> 0]>> \o Tokenize(Tail(s))

\* the operator at position i of the tokens
OpAt(toks, i) == IF i <= Len(toks) THEN toks[i].op ELSE "end"

\* an evaluation that raised
Fail == [ok |-> FALSE, num |-> 0, den |-> 1, i |-> 0]

\* the value num/den, den > 0, with the position of the next token
Val(num, den, i) ==
    IF den < 0 THEN [ok |-> TRUE, num |-> 0 - num, den |-> 0 - den, i |-> i]
    ELSE [ok |-> TRUE, num |-> num, den |-> den, i |-> i]

RECURSIVE IntPow(_, _)
IntPow(b, k) == IF k = 0 THEN 1 ELSE b * IntPow(b, k - 1)

\* a ** b; a power with a fractional exponent is outside the model
Pow(a, b) ==
    Then(b.num \div b.den, LAMBDA k :
      IF b.num % b.den # 0 THEN Fail
      ELSE IF k >= 0 THEN Val(IntPow(a.num, k), IntPow(a.den, k), b.i)
      ELSE IF a.num = 0 THEN Fail
      ELSE Val(IntPow(a.den, 0 - k), IntPow(a.num, 0 - k), b.i))

\* a // b: the floor of the quotient
FloorDiv(a, b) == Then(Val(a.num * b.den, a.den * b.num, b.i), LAMBDA q : Val(q.num \div q.den, 1, b.i))

\* a op b for the binary operators; a division by zero raises
Apply(op, a, b) ==
    CASE op = "+" -> Val(a.num * b.den + b.num * a.den, a.den * b.den, b.i)
      [] op = "-" -> Val(a.num * b.den - b.num * a.den, a.den * b.den, b.i)
      [] op = "*" -> Val(a.num * b.num, a.den * b.den, b.i)
      [] op = "/" -> IF b.num = 0 THEN Fail ELSE Val(a.num * b.den, a.den * b.num, b.i)
      [] op = "//" -> IF b.num = 0 THEN Fail ELSE FloorDiv(a, b)

RECURSIVE Factor(_, _)
RECURSIVE Power(_, _)
RECURSIVE TermRest(_, _)
RECURSIVE ExprRest(_, _)

\* power: NUMBER ['**' factor]
Power(toks, i) ==
    IF OpAt(toks, i) # "num" THEN Fail
    ELSE IF OpAt(toks, i + 1) # "**" THEN Val(toks[i].val, 1, i + 1)
    ELSE Then(Factor(toks, i + 2), LAMBDA e :
           IF e.ok THEN Pow(Val(toks[i].val, 1, i + 1), e) ELSE Fail)

\* factor: ('+' | '-') factor | power
Factor(toks, i) ==
    IF OpAt(toks, i) \in {"+", "-"}
    THEN Then(Factor(toks, i + 1), LAMBDA f :
           IF ~f.ok THEN Fail
           ELSE IF OpAt(toks, i) = "-" THEN Val(0 - f.num, f.den, f.i) ELSE f)
    ELSE Power(toks, i)

\* term: factor (('*' | '/' | '//') factor)*
TermRest(toks, acc) ==
    IF ~acc.ok THEN Fail
    ELSE IF OpAt(toks, acc.i) \in {"*", "/", "//"}
    THEN Then(Factor(toks, acc.i + 1), LAMBDA f :
           IF f.ok
           THEN Then(Apply(OpAt(toks, acc.i), acc, f), LAMBDA next : TermRest(toks, next))
           ELSE Fail)
    ELSE acc

Term(toks, i) == Then(Factor(toks, i), LAMBDA f : TermRest(toks, f))

\* expr: term (('+' | '-') term)*
ExprRest(toks, acc) ==
    IF ~acc.ok THEN Fail
    ELSE IF OpAt(toks, acc.i) \in {"+", "-"}
    THEN Then(Term(toks, acc.i + 1), LAMBDA t :
           IF t.ok
           THEN Then(Apply(OpAt(toks, acc.i), acc, t), LAMBDA next : ExprRest(toks, next))
           ELSE Fail)
    ELSE acc

\* eval(expr): the value, or Fail for a syntax error or a division by zero
PyEval(expr) ==
    Then(Tokenize(expr), LAMBDA toks :
    Then(Term(toks, 1), LAMBDA first :
    Then(ExprRest(toks, first), LAMBDA r :
      IF r.ok /\ r.i = Len(toks) + 1 THEN r ELSE Fail)))

\* int(x): truncation towards zero
PyInt(x) == IF x.num >= 0 THEN x.num \div x.den ELSE 0 - ((0 - x.num) \div x.den)

\* a match of ^(_\w+)=(\d+) at the start of a line: name and value
VarDefMatch(line) ==
    Then(IF Len(line) > 1 /\ line[1] = "_" THEN 1 + Span(Tail(line), IsWord) ELSE 0, LAMBDA n :
    Then(Span(From(line, n + 2), IsDigit), LAMBDA d :
      IF n > 1 /\ Len(line) > n /\ line[n + 1] = "=" /\ d > 0
      THEN [some |-> TRUE, name |-> SubSeq(line, 1, n),
            val |-> StrToInt(SubSeq(line, n + 2, n + 1 + d))]
      ELSE [some |-> FALSE, name |-> <<>>, val |-> 0]))

\* var_values: the last `_name=digits` line of each name
RECURSIVE VarValues(_, _)
VarValues(lines, table) ==
    IF lines = <<>> THEN table
    ELSE Then(VarDefMatch(Head(lines)), LAMBDA m :
         Then(IF m.some THEN MapSet(table, m.name, m.val) ELSE table, LAMBDA next :
           VarValues(Tail(lines), next)))

\* re.sub(r'_\w+', replace_var, expr)
RECURSIVE ReplaceVars(_, _)
ReplaceVars(expr, table) ==
    Then({i \in 1..(Len(expr) - 1) : expr[i] = "_" /\ IsWord(expr[i + 1])}, LAMBDA starts :
      IF starts = {} THEN expr
      ELSE Then(Min(starts), LAMBDA i :
           Then(1 + Span(From(expr, i + 1), IsWord), LAMBDA n :
           Then(SubSeq(expr, i, i + n - 1), LAMBDA name :
             Before(expr, i)
             \o IntToStr(IF name \in DOMAIN table THEN table[name] ELSE 0)
             \o ReplaceVars(From(expr, i + n), table)))))

\* re.sub(r'[^\d+\-*/\s]', '', expr)
KeepArithmetic(expr) ==
    SelectSeq(expr, LAMBDA c : IsDigit(c) \/ IsSpace(c) \/ c \in {"+", "-", "*", "/"})

\* APKBUILDParser._eval_shell_arithmetic
_eval_shell_arithmetic(content, expr) ==
    Then(VarValues(Split(content, <<"\n">>), EmptyMap), LAMBDA var_values :
    Then(KeepArithmetic(ReplaceVars(expr, var_values)), LAMBDA e :
    Then(PyEval(e), LAMBDA v :
      IF e # <<>> /\ v.ok THEN PyInt(v) ELSE 0)))

\* re.search(r'^pkgrel=(\S+)', content, re.MULTILINE): group 1, or None
S_pkgrel == <<"p", "k", "g", "r", "e", "l">>

PkgrelLine(content) ==
    Then(Split(content, <<"\n">>), LAMBDA lines :
    Then({i \in DOMAIN lines : /\ StartsWith(lines[i], S_pkgrel \o <<"=">>)
                               /\ Len(lines[i]) > Len(S_pkgrel) + 1
                               /\ ~IsSpace(lines[i][Len(S_pkgrel) + 2])}, LAMBDA hits :
      IF hits = {} THEN NoStr
      ELSE Then(From(lines[Min(hits)], Len(S_pkgrel) + 2), LAMBDA rest :
             SomeStr(SubSeq(rest, 1, Span(rest, LAMBDA c : ~IsSpace(c)))))))

\* the positions e at or after b that blanks and "))" follow in s
ArithEnds(s, b) ==
    {e \in b..Len(s) : Then(SkipWs(s, e + 1), LAMBDA j :
                          j + 1 <= Len(s) /\ s[j] = ")" /\ s[j + 1] = ")")}

\* re.match(r'\$\(\(\s*(.+?)\s*\)\)', s): group 1, or None.  The leading
\* blanks are taken greedily, the group lazily
ArithMatch(s) ==
    Then(IF Len(s) > 3 THEN Span(From(s, 4), IsSpace) ELSE 0, LAMBDA ws :
    Then({b \in 4..(4 + ws) : ArithEnds(s, b) # {}}, LAMBDA begins :
      IF StartsWith(s, <<"$", "(", "(">>) /\ begins # {}
      THEN Then(CHOOSE x \in begins : \A y \in begins : y <= x, LAMBDA b :
             SomeStr(SubSeq(s, b, Min(ArithEnds(s, b)))))
      ELSE NoStr))

\* APKBUILDParser._parse_pkgrel
_parse_pkgrel(ctx, content) ==
    Then(CtxGet(ctx, S_pkgrel), LAMBDA value :
    Then(IF value # <<>> THEN SomeStr(value) ELSE PkgrelLine(content), LAMBDA found :
      IF found.val = <<>> THEN 0
      ELSE IF isdigit(found.val) THEN StrToInt(found.val)
      ELSE Then(ArithMatch(found.val), LAMBDA arith_match :
             IF arith_match.some THEN _eval_shell_arithmetic(content, arith_match.val)
             ELSE 0)))

----------------------------------------------------------------------------
(* APKBUILDParser.parse_content.                                           *)

S_pkgver == <<"p", "k", "g", "v", "e", "r">>
S_pkgdesc == <<"p", "k", "g", "d", "e", "s", "c">>
S_url == <<"u", "r", "l">>
S_license == <<"l", "i", "c", "e", "n", "s", "e">>
S_arch == <<"a", "r", "c", "h">>
S_all == <<"a", "l", "l">>
S_depends == <<"d", "e", "p", "e", "n", "d", "s">>
S_makedepends == <<"m", "a", "k", "e">> \o S_depends
S_makedepends_build == S_makedepends \o <<"_", "b", "u", "i", "l", "d">>
S_makedepends_host == S_makedepends \o <<"_", "h", "o", "s", "t">>
S_checkdepends == <<"c", "h", "e", "c", "k">> \o S_depends
S_provides == <<"p", "r", "o", "v", "i", "d", "e", "s">>
S_replaces == <<"r", "e", "p", "l", "a", "c", "e", "s">>
S_main == <<"m", "a", "i", "n">>
S_community == <<"c", "o", "m", "m", "u", "n", "i", "t", "y">>
S_testing == <<"t", "e", "s", "t", "i", "n", "g">>
S_unmaintained == <<"u", "n", "m", "a", "i", "n">> \o <<"t", "a", "i", "n", "e", "d">>
S_Maintainer == <<"M", "a", "i", "n", "t", "a", "i", "n", "e", "r", ":">>
S_Contributor == <<"C", "o", "n", "t", "r", "i", "b", "u", "t", "o", "r", ":">>

\* PackageInfo(name=name): the dataclass defaults, as the parser and the
\* scanner build it
NewPackageInfo(name) ==
    [name |-> name, version |-> <<>>, release |-> 0, description |-> <<>>,
     url |-> <<>>, license |-> <<>>, arch |-> S_all,
     depends |-> <<>>, makedepends |-> <<>>, makedepends_build |-> <<>>,
     makedepends_host |-> <<>>, checkdepends |-> <<>>,
     provides |-> <<>>, replaces |-> <<>>, subpackages |-> <<>>,
     maintainer |-> <<>>, contributors |-> <<>>, repo |-> <<>>, filepath |-> <<>>]

\* Optional[PackageInfo]
NoPkg == [some |-> FALSE, val |-> NewPackageInfo(<<>>)]

SomePkg(pkg) == [some |-> TRUE, val |-> pkg]

\* Path(filepath).parts without the root: the components that are neither
\* empty nor "."
PathNames(filepath) ==
    SelectSeq(Split(filepath, <<"/">>), LAMBDA part : part # <<>> /\ part # <<".">>)

\* Path(filepath).parent.name
ParentName(filepath) ==
    Then(PathNames(filepath), LAMBDA names :
      IF Len(names) >= 2 THEN names[Len(names) - 1] ELSE <<>>)

\* the four repository names, in the order parse_content tries them
RepoNames == <<S_main, S_community, S_testing, S_unmaintained>>

\* the first of the four repository names that is a part of the path
RepoOf(filepath) ==
    Then(Range(PathNames(filepath)), LAMBDA parts :
    Then({i \in DOMAIN RepoNames : RepoNames[i] \in parts}, LAMBDA hits :
      IF filepath = <<>> \/ hits = {} THEN <<>> ELSE RepoNames[Min(hits)]))

\* a match of ^#\s*<key>\s*(.+)$ (MULTILINE) that starts at position p:
\* group 1 and the position after the match.  \s runs over line ends, and
\* gives characters back when the greedy run leaves nothing for the group
HeaderMatchAt(content, p, key) ==
    Then(SkipWs(content, p + 1), LAMBDA q :
    Then(q + Len(key), LAMBDA r :
    Then({x \in r..SkipWs(content, r) : x <= Len(content) /\ content[x] # "\n"}, LAMBDA starts :
      IF content[p] = "#" /\ StartsWith(From(content, q), key) /\ starts # {}
      THEN Then(CHOOSE y \in starts : \A z \in starts : z <= y, LAMBDA x :
           Then(Span(From(content, x), LAMBDA c : c # "\n"), LAMBDA n :
             [some |-> TRUE, val |-> SubSeq(content, x, x + n - 1), end |-> x + n]))
      ELSE [some |-> FALSE, val |-> <<>>, end |-> p])))

\* re.finditer of the header pattern: group 1 of every match, in order
RECURSIVE HeaderMatches(_, _, _)
HeaderMatches(content, from, key) ==
    Then([p \in from..Len(content) |->
            IF p = 1 \/ content[p - 1] = "\n" THEN HeaderMatchAt(content, p, key)
            ELSE [some |-> FALSE, val |-> <<>>, end |-> p]], LAMBDA at :
    Then({p \in DOMAIN at : at[p].some}, LAMBDA starts :
      IF starts = {} THEN <<>>
      ELSE <<at[Min(starts)].val>> \o HeaderMatches(content, at[Min(starts)].end, key)))

\* the name parse_content gives the record: None when no pkgname was
\* found, else the stripped name, or the directory name when the name still
\* holds a "$"
ResolveName(st, filepath) ==
    Then(IF st._first_pkgname.some /\ st._first_pkgname.val # <<>>
         THEN st._first_pkgname.val ELSE CtxGet(st._ctx, S_pkgname), LAMBDA pkgname :
      IF pkgname = <<>> THEN NoStr
      ELSE Then(StripQuotes(Strip(pkgname)), LAMBDA stripped :
           Then(ParentName(filepath), LAMBDA dir_name :
             IF Contains(stripped, <<"$">>) /\ filepath # <<>>
                /\ dir_name # <<>> /\ Head(dir_name) # "."
             THEN SomeStr(dir_name)
             ELSE SomeStr(stripped))))

\* the variables parse_content reads as dependency lists, in its order
DepListNames == <<S_depends, S_makedepends, S_makedepends_build, S_makedepends_host, S_checkdepends, S_provides, S_replaces>>

\* the calls of _extract_dep_list in parse_content from the k-th on: the
\* lists, and the context the calls leave
RECURSIVE ExtractLists(_, _, _, _, _)
ExtractLists(ctx, content, pkgname, k, lists) ==
    IF k > Len(DepListNames) THEN [ctx |-> ctx, lists |-> lists]
    ELSE Then(_extract_dep_list(ctx, content, DepListNames[k], pkgname), LAMBDA d :
           ExtractLists(d.ctx, content, pkgname, k + 1, Append(lists, d.deps)))

\* the maintainer field: group 1 of the first header match, stripped
MaintainerOf(content) ==
    Then(HeaderMatches(content, 1, S_Maintainer), LAMBDA maint :
      IF maint = <<>> THEN <<>> ELSE Strip(maint[1]))

\* the contributors field: group 1 of every header match, stripped
ContributorsOf(content) ==
    Then(HeaderMatches(content, 1, S_Contributor), LAMBDA contrib :
      [i \in DOMAIN contrib |-> Strip(contrib[i])])

\* parse_content after the first pass: the record built from the parser
\* state, and the state it leaves (expand may set variables)
BuildPackage(st, content, filepath) ==
    Then(ResolveName(st, filepath), LAMBDA name :
      IF ~name.some THEN [st |-> st, ret |-> NoPkg]
      ELSE Then(expand(st._ctx, CtxGet(st._ctx, S_pkgver)), LAMBDA ver :
           Then(ExtractLists(ver.ctx, content, name.val, 1, <<>>), LAMBDA d :
           Then(_extract_subpackages(d.ctx, content, name.val), LAMBDA sub :
             [st |-> [st EXCEPT !._ctx = sub.ctx],
              ret |-> SomePkg(
                 [name |-> name.val, version |-> ver.text,
                  release |-> _parse_pkgrel(ver.ctx, content),
                  description |-> StripSet(CtxGet(ver.ctx, S_pkgdesc), {"\""}),
                  url |-> StripSet(CtxGet(ver.ctx, S_url), {"\""}),
                  license |-> StripSet(CtxGet(ver.ctx, S_license), {"\""}),
                  arch |-> StripSet(CtxGetOr(ver.ctx, S_arch, S_all), {"\""}),
                  depends |-> d.lists[1], makedepends |-> d.lists[2],
                  makedepends_build |-> d.lists[3], makedepends_host |-> d.lists[4],
                  checkdepends |-> d.lists[5], provides |-> d.lists[6],
                  replaces |-> d.lists[7], subpackages |-> sub.deps,
                  maintainer |-> MaintainerOf(content),
                  contributors |-> ContributorsOf(content),
                  repo |-> RepoOf(filepath), filepath |-> filepath])]))))

\* APKBUILDParser.parse_content: both passes on a fresh context
parse_content(content, filepath) ==
    Then(_parse_variables(NewParser, content),
         LAMBDA st : BuildPackage(st, content, filepath))

----------------------------------------------------------------------------
(* AportsScanner.                                                          *)

\* AportsScanner(): the three dictionaries, empty
AportsScanner == [_packages |-> EmptyMap, _provides_map |-> EmptyMap, _subpkg_map |-> EmptyMap]

\* prov.split("=")[0].split(">")[0].split("<")[0]
ProvName(prov) ==
    Split(Split(Split(prov, <<"=">>)[1], <<">">>)[1], <<"<">>)[1]

RECURSIVE MapAll(_, _, _, _)
\* for key in keys: map[Key(key)] = value
MapAll(map, keys, value, strip) ==
    IF keys = <<>> THEN map
    ELSE MapAll(MapSet(map, IF strip THEN ProvName(Head(keys)) ELSE Head(keys), value),
                Tail(keys), value, strip)

\* the body of the as_completed loop of scan for a future that gave a record
Store(sc, pkg) ==
    [_packages |-> MapSet(sc._packages, pkg.name, pkg),
     _provides_map |-> MapAll(sc._provides_map, pkg.provides, pkg.name, TRUE),
     _subpkg_map |-> MapAll(sc._subpkg_map, pkg.subpackages, pkg.name, FALSE)]

\* JSON values: what json.dump makes of a str, an int, a list and a dict
JStr(s) == [t |-> "string", v |-> s]

JNum(n) == [t |-> "number", v |-> n]

JArr(l) == [t |-> "array", v |-> [i \in DOMAIN l |-> JStr(l[i])]]

JObj(d) == [t |-> "object", v |-> d]

\* what json.load makes of a JSON value: str, int, list of str
PyValue(j) ==
    IF j.t = "array" THEN [i \in DOMAIN j.v |-> j.v[i].v] ELSE j.v

\* mutant: to_dict leaves the depends list out
PackageInfo_to_dict_NoDepends(pkg) ==
    [k \in {"name", "version", "release", "description", "url", "license", "arch",
            "makedepends", "makedepends_build", "makedepends_host", "checkdepends",
            "provides", "replaces", "subpackages", "maintainer", "contributors",
            "repo", "filepath"} |->
        IF k = "release" THEN JNum(pkg[k])
        ELSE IF k \in {"name", "version", "description", "url", "license", "arch",
                       "maintainer", "repo", "filepath"} THEN JStr(pkg[k])
        ELSE JArr(pkg[k])]

\* PackageInfo.to_dict as json.dump writes it
PackageInfo_to_dict(pkg) ==
    [name |-> JStr(pkg.name), version |-> JStr(pkg.version), release |-> JNum(pkg.release),
     description |-> JStr(pkg.description), url |-> JStr(pkg.url),
     license |-> JStr(pkg.license), arch |-> JStr(pkg.arch),
     depends |-> JArr(pkg.depends), makedepends |-> JArr(pkg.makedepends),
     makedepends_build |-> JArr(pkg.makedepends_build),
     makedepends_host |-> JArr(pkg.makedepends_host),
     checkdepends |-> JArr(pkg.checkdepends), provides |-> JArr(pkg.provides),
     replaces |-> JArr(pkg.replaces), subpackages |-> JArr(pkg.subpackages),
     maintainer |-> JStr(pkg.maintainer), contributors |-> JArr(pkg.contributors),
     repo |-> JStr(pkg.repo), filepath |-> JStr(pkg.filepath)]

\* AportsScanner.save_to_json: the document written
save_to_json(sc) ==
    [packages |-> JObj([k \in DOMAIN sc._packages |->
                           JObj(PackageInfo_to_dict(sc._packages[k]))]),
     provides_map |-> JObj([k \in DOMAIN sc._provides_map |-> JStr(sc._provides_map[k])]),
     subpkg_map |-> JObj([k \in DOMAIN sc._subpkg_map |-> JStr(sc._subpkg_map[k])])]

\* PackageInfo(name=name), then setattr for every key of the object that
\* names an attribute
LoadPackage(name, pkg_dict) ==
    LET pkg == NewPackageInfo(name)
    IN [key \in DOMAIN pkg |->
           IF key \in DOMAIN pkg_dict THEN PyValue(pkg_dict[key]) ELSE pkg[key]]

\* data.get(key, {}) of a dict of strings
LoadMap(data, key) ==
    IF key \in DOMAIN data THEN [k \in DOMAIN data[key].v |-> data[key].v[k].v] ELSE EmptyMap

\* AportsScanner.load_from_json: the scanner the document leaves
load_from_json(data) ==
    [_packages |-> [name \in DOMAIN data.packages.v |->
                       LoadPackage(name, data.packages.v[name].v)],
     _provides_map |-> LoadMap(data, "provides_map"),
     _subpkg_map |-> LoadMap(data, "subpkg_map")]

\* no file saved yet
NoFile == [some |-> FALSE, data |-> EmptyMap]

\* the files a scan finds: path and text
F_a == [filepath |-> <<"m", "a", "i", "n", "/", "a", "/", "A", "P", "K", "B", "U", "I", "L", "D">>, content |-> <<"p", "k", "g", "n", "a", "m", "e", "=", "a", "\n", "p", "r", "o", "v", "i", "d", "e", "s", "=", "\"", "c", "=", "1", "\"", "\n", "d", "e", "p", "e", "n", "d", "s", "=", "\"", "b", "\"">>]

F_b == [filepath |-> <<"m", "a", "i", "n", "/", "b", "/", "A", "P", "K", "B", "U", "I", "L", "D">>, content |-> <<"p", "k", "g", "n", "a", "m", "e", "=", "b", "\n", "s", "u", "b", "p", "a", "c", "k", "a", "g", "e", "s", "=", "\"", "$", "p", "k", "g", "n", "a", "m", "e", "-", "d", "e", "v", "\"">>]

F_e == [filepath |-> <<"m", "a", "i", "n", "/", "e", "/", "A", "P", "K", "B", "U", "I", "L", "D">>, content |-> <<"_", "x", "=", "1">>]

\* a second recipe named a, with the sub-package that F_b declares
F_c == [filepath |-> <<"c", "o", "m", "m", "u", "n", "i", "t", "y", "/", "a", "/", "A", "P", "K", "B", "U", "I", "L", "D">>, content |-> <<"p", "k", "g", "n", "a", "m", "e", "=", "a", "\n", "s", "u", "b", "p", "a", "c", "k", "a", "g", "e", "s", "=", "\"", "b", "-", "d", "e", "v", "\"">>]

FilePool == {F_a, F_b, F_c, F_e}

\* the files of one scan: at most MaxFiles distinct files, in any order
MaxFiles == 2

RECURSIVE FileLists(_)
FileLists(n) ==
    IF n = 0 THEN {<<>>}
    ELSE LET shorter == FileLists(n - 1)
         IN shorter \cup {Append(l, f) : l \in {x \in shorter : Len(x) = n - 1},
                                         f \in FilePool}

ScanLists == {l \in FileLists(MaxFiles) : l # <<>> /\ \A i, j \in DOMAIN l : i # j => l[i] # l[j]}

----------------------------------------------------------------------------
(* The inputs of the parser: recipe texts made of a few lines, and          *)
(* dependency tokens over a small alphabet.                                 *)

\* pkgname=a
L_name_a == <<"p", "k", "g", "n", "a", "m", "e", "=", "a">>

\* pkgname=" "
L_name_blank == <<"p", "k", "g", "n", "a", "m", "e", "=", "\"", " ", "\"">>

\* pkgname='""'
L_name_quotes == <<"p", "k", "g", "n", "a", "m", "e", "=", "'", "\"", "\"", "'">>

\* pkgname=$x
L_name_var == <<"p", "k", "g", "n", "a", "m", "e", "=", "$", "x">>

\* pkgname=""
L_name_empty == <<"p", "k", "g", "n", "a", "m", "e", "=", "\"", "\"">>

\* pkgrel=3
L_rel_3 == <<"p", "k", "g", "r", "e", "l", "=", "3">>

\* pkgrel=$(( _rel + 1 ))
L_rel_var == <<"p", "k", "g", "r", "e", "l", "=", "$", "(", "(", " ", "_", "r", "e", "l", " ", "+", " ", "1", " ", ")", ")">>

\* pkgrel=$(( 1 - 3 ))
L_rel_minus == <<"p", "k", "g", "r", "e", "l", "=", "$", "(", "(", " ", "1", " ", "-", " ", "3", " ", ")", ")">>

\* pkgrel=$(( (1 + 2) * 3 ))
L_rel_paren == <<"p", "k", "g", "r", "e", "l", "=", "$", "(", "(", " ", "(", "1", " ", "+", " ", "2", ")", " ", "*", " ", "3", " ", ")", ")">>

\* pkgrel=x
L_rel_word == <<"p", "k", "g", "r", "e", "l", "=", "x">>

\* pkgrel=$(( 1 / 0 ))
L_rel_zero == <<"p", "k", "g", "r", "e", "l", "=", "$", "(", "(", " ", "1", " ", "/", " ", "0", " ", ")", ")">>

\* pkgrel=$(( 7 / 2 ))
L_rel_div == <<"p", "k", "g", "r", "e", "l", "=", "$", "(", "(", " ", "7", " ", "/", " ", "2", " ", ")", ")">>

\* _rel=3
L_def_rel == <<"_", "r", "e", "l", "=", "3">>

\* depends="libfoo>=1.0 libbar<2.0 !conflicting"
L_depends == <<"d", "e", "p", "e", "n", "d", "s", "=", "\"", "l", "i", "b", "f", "o", "o", ">", "=", "1", ".", "0", " ", "l", "i", "b", "b", "a", "r", "<", "2", ".", "0", " ", "!", "c", "o", "n", "f", "l", "i", "c", "t", "i", "n", "g", "\"">>

\* makedepends="$pkgname-x $y b"
L_makedepends == <<"m", "a", "k", "e", "d", "e", "p", "e", "n", "d", "s", "=", "\"", "$", "p", "k", "g", "n", "a", "m", "e", "-", "x", " ", "$", "y", " ", "b", "\"">>

\* provides="$pkgnamex$y c=1"
L_provides == <<"p", "r", "o", "v", "i", "d", "e", "s", "=", "\"", "$", "p", "k", "g", "n", "a", "m", "e", "x", "$", "y", " ", "c", "=", "1", "\"">>

\* subpackages="$pkgname-dev $pkgname-doc:d $pkgname"
L_subpackages == <<"s", "u", "b", "p", "a", "c", "k", "a", "g", "e", "s", "=", "\"", "$", "p", "k", "g", "n", "a", "m", "e", "-", "d", "e", "v", " ", "$", "p", "k", "g", "n", "a", "m", "e", "-", "d", "o", "c", ":", "d", " ", "$", "p", "k", "g", "n", "a", "m", "e", "\"">>

\* checkdepends="!a (b) c::d"
L_checkdepends == <<"c", "h", "e", "c", "k", "d", "e", "p", "e", "n", "d", "s", "=", "\"", "!", "a", " ", "(", "b", ")", " ", "c", ":", ":", "d", "\"">>

\* main/foo/APKBUILD
P_main_foo == <<"m", "a", "i", "n", "/", "f", "o", "o", "/", "A", "P", "K", "B", "U", "I", "L", "D">>

\* replaces="$pkgname()$1 b"
L_replaces == <<"r", "e", "p", "l", "a", "c", "e", "s", "=", "\"", "$", "p", "k", "g", "n", "a", "m", "e", "(", ")", "$", "1", " ", "b", "\"">>

\* no line / no path
L_none == <<>>

NameLines == {L_none, L_name_a, L_name_blank, L_name_quotes, L_name_var, L_name_empty}

RelLines == {L_none, L_rel_3, L_rel_var, L_rel_minus, L_rel_paren, L_rel_word, L_rel_zero, L_rel_div}

DefLines == {L_none, L_def_rel}

ListLines == {L_none, L_depends, L_makedepends, L_provides, L_subpackages, L_checkdepends, L_replaces}

Paths == {L_none, P_main_foo}

\* the text of a file whose lines are the given ones, absent lines left out
Recipe(lines) ==
    LET present == SelectSeq(lines, LAMBDA l : l # L_none)
    IN Join([i \in DOMAIN present |-> present[i] \o <<"\n">>], <<>>)

\* every name line with every list line, and every release line on a
\* recipe named a, with and without the definition of _rel
Recipes ==
    {Recipe(<<n, l>>) : n \in NameLines, l \in ListLines}
        \cup {Recipe(<<L_name_a, d, r>>) : d \in DefLines, r \in RelLines}

\* pkgname=b
L_name_b == <<"p", "k", "g", "n", "a", "m", "e", "=", "b">>

\* recipes that assign pkgname two or three times
Renamed ==
    {Recipe(<<x, y>>) : x \in {L_name_a, L_name_b, L_name_var, L_name_empty},
                        y \in {L_name_a, L_name_b, L_name_var, L_name_empty}}
        \cup {Recipe(<<L_name_empty, L_name_a, L_name_b>>)}

\* depends="a b      (tokens on the line of the opening quote)
\*  c
\* "
L_multi_first == <<"d", "e", "p", "e", "n", "d", "s", "=", "\"", "a", " ", "b", "\n", " ", "c", "\n", "\"">>

\* depends="a
\*  b
\* "
L_multi_one == <<"d", "e", "p", "e", "n", "d", "s", "=", "\"", "a", "\n", " ", "b", "\n", "\"">>

\* depends="
\*  a
\*  b
\* "
L_multi_open == <<"d", "e", "p", "e", "n", "d", "s", "=", "\"", "\n", " ", "a", "\n", " ", "b", "\n", "\"">>

\* recipes whose depends value opens on one line and closes on a later one
Multiline == {Recipe(<<L_name_a, m>>) : m \in {L_multi_first, L_multi_one, L_multi_open}}

\* q=7
L_q == <<"q", "=", "7">>

\* [ x ] && v=a || w=b
L_cond_plain == <<"[", " ", "x", " ", "]", " ", "&", "&", " ", "v", "=", "a", " ", "|", "|", " ", "w", "=", "b">>

\* [ x ] && v=a
L_cond_only == <<"[", " ", "x", " ", "]", " ", "&", "&", " ", "v", "=", "a">>

\* [ "$q" = 7 ] && v=a || w=$q-1
L_cond_ref == <<"[", " ", "\"", "$", "q", "\"", " ", "=", " ", "7", " ", "]", " ", "&", "&", " ", "v", "=", "a", " ", "|", "|", " ", "w", "=", "$", "q", "-", "1">>

\* [ x ] && q=a || q="b c"
L_cond_same == <<"[", " ", "x", " ", "]", " ", "&", "&", " ", "q", "=", "a", " ", "|", "|", " ", "q", "=", "\"", "b", " ", "c", "\"">>

\* [ x ] && v="a b" || w=c
L_cond_quoted == <<"[", " ", "x", " ", "]", " ", "&", "&", " ", "v", "=", "\"", "a", " ", "b", "\"", " ", "|", "|", " ", "w", "=", "c">>

\* [ x ] && v=a || w=${u:=z}
L_cond_default == <<"[", " ", "x", " ", "]", " ", "&", "&", " ", "v", "=", "a", " ", "|", "|", " ", "w", "=", "$", "{", "u", ":", "=", "z", "}">>

CondLines ==
    {L_cond_plain, L_cond_only, L_cond_ref, L_cond_same, L_cond_quoted, L_cond_default}

\* recipes named a that set q and then hold one conditional assignment
Conditional == {Recipe(<<L_name_a, L_q, c>>) : c \in CondLines}

\* the recipes handed to parse_content
ParsedRecipes == Recipes \cup Renamed \cup Multiline \cup Conditional

\* the longest token drawn from TokenChars
MaxTokenLen == 3

TokenChars == {"a", "1", "!", ">", ":", "(", ")", "-"}

RECURSIVE Strings(_, _)
Strings(C, n) ==
    IF n = 0 THEN {<<>>}
    ELSE LET shorter == Strings(C, n - 1)
         IN shorter \cup {<<c>> \o t : c \in C, t \in {x \in shorter : Len(x) = n - 1}}

\* tokens as split() hands them to _clean_dep_name: no blank inside
DepTokens ==
    (Strings(TokenChars, MaxTokenLen) \ {<<>>})
        \cup {<<"a", "(", "b", ")", "c">>, <<"a", ":", ":", "b", ">", "1">>,
              <<"a", ">", "1", ":", ":", "b">>, <<"a", "(", "b", ")", "(", "c", ")">>,
              <<"l", "i", "b", "=", "1", ".", "0">>, <<"a", "~", "1">>, <<"a", "<", "2">>}

\* the longest value of the variable a suffix is removed from
MaxValueLen == 3

SuffixChars == {"a", "-", "."}

\* the contexts expand is called on: v unset, or set to a value
SuffixContexts ==
    {BashVariableContext}
        \cup {CtxSet(BashVariableContext, <<"v">>, x) : x \in Strings(SuffixChars, MaxValueLen)}

\* shell patterns: literal characters, * and ?
SuffixPatterns ==
    {<<"a">>, <<"-">>, <<"*">>, <<"?">>, <<"-", "*">>, <<"*", "-">>, <<"-", "?">>,
     <<"a", "*">>, <<"?", "a">>, <<"-", "a">>, <<".">>, <<".", "*">>}

\* ${v%pattern} and ${v%%pattern}
RemoveShortest(pattern) == <<"$", "{", "v", "%">> \o pattern \o <<"}">>

RemoveLongest(pattern) == <<"$", "{", "v", "%", "%">> \o pattern \o <<"}">>

SuffixTexts ==
    {RemoveShortest(p) : p \in SuffixPatterns} \cup {RemoveLongest(p) : p \in SuffixPatterns}

----------------------------------------------------------------------------
(* Operations.  `call` is the query in progress and its return value; the  *)
(* caller takes it in Return.                                              *)

NoCall == [op |-> "none", args |-> <<>>, ret |-> None]

Result(op, args, ret) == [op |-> op, args |-> args, ret |-> ret]

add_package(pkg) ==
    /\ call.op = "none"
    /\ adds < MaxAdds
    /\ LET pkgs == DictSet(packages, pkg)
           pmap == AddProvides(_provides_map, pkg.provides, pkg.name)
           smap == AddSubpkgs(_subpkg_map, pkg.subpackages, pkg.name)
       IN /\ packages' = pkgs
          /\ _provides_map' = pmap
          /\ _subpkg_map' = smap
          /\ _graph' = AddPackageEdges(add_node(_graph, pkg.name), pkgs, pmap, smap, pkg)
    /\ adds' = adds + 1
    /\ UNCHANGED <<_reverse_graph, call, svars>>

QueryDependencies(package, dep_type, recursive, max_depth) ==
    /\ call.op = "none"
    /\ call' = Result("get_dependencies", <<package, dep_type, recursive, max_depth>>,
                      get_dependencies(_graph, package, dep_type, recursive, max_depth))
    /\ UNCHANGED <<gvars, svars>>

QueryReverseDependencies(package, dep_type, recursive, max_depth) ==
    /\ call.op = "none"
    /\ call' = Result("get_reverse_dependencies",
                      <<package, dep_type, recursive, max_depth>>,
                      get_reverse_dependencies(_reverse_graph, package, dep_type,
                                               recursive, max_depth))
    /\ UNCHANGED <<gvars, svars>>

QueryDependencyTree(package, dep_type, max_depth) ==
    /\ call.op = "none"
    /\ call' = Result("get_dependency_tree", <<package, dep_type, max_depth>>,
                      get_dependency_tree(_graph, package, dep_type, max_depth))
    /\ UNCHANGED <<gvars, svars>>

QueryDependencyPath(source, target) ==
    /\ call.op = "none"
    /\ call' = Result("get_dependency_path", <<source, target>>,
                      get_dependency_path(_graph, source, target))
    /\ UNCHANGED <<gvars, svars>>

QueryFindCycles ==
    /\ call.op = "none"
    /\ call' = Result("find_cycles", <<>>, find_cycles(_graph))
    /\ UNCHANGED <<gvars, svars>>

QueryStatistics ==
    /\ call.op = "none"
    /\ call' = Result("get_statistics", <<>>, get_statistics(_graph))
    /\ UNCHANGED <<gvars, svars>>

QueryDependencyDepth(package) ==
    /\ call.op = "none"
    /\ call' = Result("get_dependency_depth", <<package>>,
                      get_dependency_depth(_graph, package))
    /\ UNCHANGED <<gvars, svars>>

QueryMostDepended(top_n) ==
    /\ call.op = "none"
    /\ call' = Result("get_most_depended", <<top_n>>,
                      get_most_depended(packages, _reverse_graph, top_n))
    /\ UNCHANGED <<gvars, svars>>

QueryMostDependencies(top_n) ==
    /\ call.op = "none"
    /\ call' = Result("get_most_dependencies", <<top_n>>,
                      get_most_dependencies(packages, _graph, top_n))
    /\ UNCHANGED <<gvars, svars>>

QueryLeafPackages ==
    /\ call.op = "none"
    /\ call' = Result("get_leaf_packages", <<>>,
                      get_leaf_packages(packages, _reverse_graph))
    /\ UNCHANGED <<gvars, svars>>

QueryRootPackages ==
    /\ call.op = "none"
    /\ call' = Result("get_root_packages", <<>>, get_root_packages(packages, _graph))
    /\ UNCHANGED <<gvars, svars>>

\* mutant: get_subgraph prunes the graph object itself
QuerySubgraph_InPlace(pkglist, include_deps, max_depth) ==
    /\ call.op = "none"
    /\ \E order \in Orders(SubgraphNodes(_graph, pkglist, include_deps, max_depth)
                               \cap Keys(packages)) :
          LET sub == get_subgraph(packages, _graph, pkglist, include_deps,
                                  max_depth, order)
          IN /\ call' = Result("get_subgraph", <<pkglist, include_deps, max_depth>>, sub)
             /\ packages' = [i \in 1..Len(order) |-> Lookup(packages, order[i])]
             /\ _graph' = sub.graph
             /\ _reverse_graph' = sub.reverse_graph
             /\ _provides_map' = sub.provides
             /\ _subpkg_map' = sub.subpkg
    /\ UNCHANGED <<adds, svars>>

\* the node set is a Python set of strings: the order the dict comprehension
\* walks it in is any order
QuerySubgraph(pkglist, include_deps, max_depth) ==
    /\ call.op = "none"
    /\ \E order \in Orders(SubgraphNodes(_graph, pkglist, include_deps, max_depth)
                               \cap Keys(packages)) :
          call' = Result("get_subgraph", <<pkglist, include_deps, max_depth>>,
                         get_subgraph(packages, _graph, pkglist, include_deps,
                                      max_depth, order))
    /\ UNCHANGED <<gvars, svars>>

QueryToDict ==
    /\ call.op = "none"
    /\ call' = Result("to_dict", <<>>, to_dict(packages, _graph))
    /\ UNCHANGED <<gvars, svars>>

\* one call of _clean_dep_name on a token
CleanDepName(token) ==
    /\ call.op = "none"
    /\ call' = Result("_clean_dep_name", <<token>>, _clean_dep_name(token))
    /\ UNCHANGED <<gvars, svars>>

\* one call of expand on a context of its own; the forms drawn write no
\* variable
Expand(ctx, text) ==
    /\ call.op = "none"
    /\ call' = Result("expand", <<ctx, text>>, expand(ctx, text).text)
    /\ UNCHANGED <<gvars, svars>>

\* one call of parse_content on the scanner's parser, no scan running
ParseContent(content, filepath) ==
    /\ call.op = "none"
    /\ workers = <<>>
    /\ LET r == parse_content(content, filepath)
       IN /\ call' = Result("parse_content", <<content, filepath>>, r.ret)
          /\ parser' = r.st
    /\ UNCHANGED <<gvars, workers, scanner, disk>>

\* scan up to the submits: one future per file, each on a worker of the pool.
\* Scans start on a scanner that holds nothing yet
Scan(files) ==
    /\ call.op = "none"
    /\ workers = <<>>
    /\ scanner = AportsScanner
    /\ workers' = [i \in DOMAIN files |->
                      [pc |-> "reset", filepath |-> files[i].filepath,
                       content |-> files[i].content,
                       lines |-> Split(files[i].content, <<"\n">>), ret |-> NoPkg]]
    /\ UNCHANGED <<gvars, call, parser, scanner, disk>>

\* a worker enters parse_content: the shared parser gets a fresh context
WorkerReset(i) ==
    /\ workers[i].pc = "reset"
    /\ parser' = NewParser
    /\ workers' = [workers EXCEPT ![i].pc = "lines"]
    /\ UNCHANGED <<gvars, call, scanner, disk>>

\* a worker runs one turn of the loop of _parse_variables on the shared parser
WorkerLine(i) ==
    /\ workers[i].pc = "lines"
    /\ parser' = ParseLine(parser, Head(workers[i].lines))
    /\ workers' = [workers EXCEPT ![i].lines = Tail(@),
                                  ![i].pc = IF Len(workers[i].lines) = 1 THEN "build" ELSE "lines"]
    /\ UNCHANGED <<gvars, call, scanner, disk>>

\* a worker builds its record from what the shared parser holds now
WorkerBuild(i) ==
    /\ workers[i].pc = "build"
    /\ LET r == BuildPackage(parser, workers[i].content, workers[i].filepath)
       IN /\ parser' = r.st
          /\ workers' = [workers EXCEPT ![i].ret = r.ret, ![i].pc = "done"]
    /\ UNCHANGED <<gvars, call, scanner, disk>>

\* the scanning thread takes a completed future and stores its record
Collect(i) ==
    /\ workers[i].pc = "done"
    /\ scanner' = IF workers[i].ret.some THEN Store(scanner, workers[i].ret.val) ELSE scanner
    /\ workers' = [workers EXCEPT ![i].pc = "collected"]
    /\ UNCHANGED <<gvars, call, parser, disk>>

\* scan returns its counts once every future is collected
ScanReturn ==
    /\ workers # <<>>
    /\ \A i \in DOMAIN workers : workers[i].pc = "collected"
    /\ call' = Result("scan", <<>>,
                      [successful |-> Cardinality({i \in DOMAIN workers : workers[i].ret.some}),
                       failed |-> Cardinality({i \in DOMAIN workers : ~workers[i].ret.some})])
    /\ workers' = <<>>
    /\ UNCHANGED <<gvars, parser, scanner, disk>>

SaveToJson ==
    /\ call.op = "none"
    /\ workers = <<>>
    /\ disk' = [some |-> TRUE, data |-> save_to_json(scanner)]
    /\ call' = Result("save_to_json", <<>>, None)
    /\ UNCHANGED <<gvars, parser, workers, scanner>>

LoadFromJson ==
    /\ call.op = "none"
    /\ workers = <<>>
    /\ disk.some
    /\ scanner' = load_from_json(disk.data)
    /\ call' = Result("load_from_json", <<>>, None)
    /\ UNCHANGED <<gvars, parser, workers, disk>>

Return ==
    /\ call.op # "none"
    /\ call' = NoCall
    /\ UNCHANGED <<gvars, svars>>

----------------------------------------------------------------------------
(* Specifications.                                                         *)

\* the state DependencyGraph(pkgs) leaves
Constructed(pkgs) ==
    /\ packages = pkgs
    /\ _graph = New(pkgs).graph
    /\ _reverse_graph = New(pkgs).reverse_graph
    /\ _provides_map = New(pkgs).provides
    /\ _subpkg_map = New(pkgs).subpkg
    /\ adds = 0
    /\ call = NoCall
    /\ parser = NewParser
    /\ workers = <<>>
    /\ scanner = AportsScanner
    /\ disk = NoFile

\* dependency tokens only, over the record names
EdgeSlots == {"depends", "makedepends"} \X Names

\* a record for every name, in name order, no aliases
RECURSIVE GraphMaps(_, _)
GraphMaps(n, k) ==
    IF n > NumNames THEN {<<>>}
    ELSE UNION {{<<RecordOf(n, S)>> \o rest : rest \in GraphMaps(n + 1, k - Cardinality(S))}
                : S \in SlotSets(EdgeSlots, k)}

\* Graph::new on a record map of at most MaxInitPkgs records with aliases,
\* sub-packages and all three dependency kinds; direct queries
InitBuild == \E pkgs \in RecordMaps(1..MaxInitPkgs, Slots, MaxInitTokens) : Constructed(pkgs)

NextBuild ==
    \/ \E p \in Tokens, t \in DependencyType : QueryDependencies(p, t, FALSE, 0 - 1)
    \/ \E p \in Tokens, t \in DependencyType : QueryReverseDependencies(p, t, FALSE, 0 - 1)
    \/ Return

SpecBuild == InitBuild /\ [][NextBuild]_vars

\* Graph::new on the same record maps, then get_subgraph on lists of record
\* names
NextSubgraph ==
    \/ \E l \in PkgLists(1..MaxInitPkgs), i \in BOOLEAN, d \in DepthArgs : QuerySubgraph(l, i, d)
    \/ Return

SpecSubgraph == InitBuild /\ [][NextSubgraph]_vars

\* Graph::new on a record for every name, then every query
InitGraph == \E pkgs \in GraphMaps(1, MaxEdges) : Constructed(pkgs)

NextGraph ==
    \/ \E p \in Tokens, t \in DependencyType, r \in BOOLEAN, d \in DepthArgs :
          QueryDependencies(p, t, r, d)
    \/ \E p \in Tokens, t \in DependencyType, r \in BOOLEAN, d \in DepthArgs :
          QueryReverseDependencies(p, t, r, d)
    \/ \E p \in Tokens, t \in DependencyType, d \in DepthArgs : QueryDependencyTree(p, t, d)
    \/ \E a \in Tokens, b \in Tokens : QueryDependencyPath(a, b)
    \/ QueryFindCycles
    \/ QueryStatistics
    \/ \E p \in Tokens : QueryDependencyDepth(p)
    \/ \E n \in TopArgs : QueryMostDepended(n)
    \/ \E n \in TopArgs : QueryMostDependencies(n)
    \/ QueryLeafPackages
    \/ QueryRootPackages
    \/ \E l \in PkgLists(Tokens), i \in BOOLEAN, d \in DepthArgs : QuerySubgraph(l, i, d)
    \/ QueryToDict
    \/ Return

SpecGraph == InitGraph /\ [][NextGraph]_vars

\* the names and tokens of the incremental scenario: the first MaxInitPkgs
\* names and one token that names no record
SmallNames == 1..MaxInitPkgs

SmallTokens == SmallNames \cup {NumTokens}

SmallSlots ==
    ({"depends", "makedepends", "checkdepends", "subpackages"} \X SmallTokens)
        \cup ({"provides"} \X {RawKey(p) : p \in [n : SmallTokens, op : {"", ">"}]})

\* the records add_package is given: at most one token each
AddPool == {RecordOf(n, S) : n \in SmallNames, S \in SlotSets(SmallSlots, 1)}

\* DependencyGraph() or Graph::new on one record that depends on itself or
\* on a name no record has yet; then add_package and every query
Init ==
    \E pkgs \in RecordMaps({1}, {"depends"} \X {1, NumTokens}, 1) : Constructed(pkgs)

Next ==
    \/ \E pkg \in AddPool : add_package(pkg)
    \/ \E p \in SmallTokens, t \in DependencyType, r \in BOOLEAN :
          QueryDependencies(p, t, r, 0 - 1)
    \/ \E p \in SmallTokens, t \in DependencyType, r \in BOOLEAN :
          QueryReverseDependencies(p, t, r, 0 - 1)
    \/ \E p \in SmallTokens, t \in DependencyType : QueryDependencyTree(p, t, MaxDepth)
    \/ \E a \in SmallTokens, b \in SmallTokens : QueryDependencyPath(a, b)
    \/ QueryFindCycles
    \/ QueryStatistics
    \/ \E p \in SmallTokens : QueryDependencyDepth(p)
    \/ \E n \in TopArgs : QueryMostDepended(n)
    \/ \E n \in TopArgs : QueryMostDependencies(n)
    \/ QueryLeafPackages
    \/ QueryRootPackages
    \/ \E p \in SmallTokens, i \in BOOLEAN : QuerySubgraph(<<p>>, i, MaxDepth)
    \/ QueryToDict
    \/ Return

Spec == Init /\ [][Next]_vars

\* DependencyGraph() and then add_package only: a graph grown record by
\* record from the empty graph
InitEmpty == Constructed(<<>>)

NextAdd == \E pkg \in AddPool : add_package(pkg)

SpecAdd == InitEmpty /\ [][NextAdd]_vars

\* the parser on its own: a scanner over no graph, tokens and recipes
InitParse == Constructed(<<>>)

NextParse ==
    \/ \E t \in DepTokens : CleanDepName(t)
    \/ \E c \in ParsedRecipes, f \in Paths : ParseContent(c, f)
    \/ \E ctx \in SuffixContexts, text \in SuffixTexts : Expand(ctx, text)
    \/ Return

SpecParse == InitParse /\ [][NextParse]_vars

\* the scanner: scans of the files found, saving and loading
InitScan == Constructed(<<>>)

NextScan ==
    \/ \E files \in ScanLists : Scan(files)
    \/ \E i \in DOMAIN workers : WorkerReset(i)
    \/ \E i \in DOMAIN workers : WorkerLine(i)
    \/ \E i \in DOMAIN workers : WorkerBuild(i)
    \/ \E i \in DOMAIN workers : Collect(i)
    \/ ScanReturn
    \/ SaveToJson
    \/ LoadFromJson
    \/ Return

SpecScan == InitScan /\ [][NextScan]_vars

----------------------------------------------------------------------------
(* Reference notions the claims are stated in.                             *)

HasEdge(G, u, v) == <<u, v>> \in DOMAIN G.adj

\* an edge u->v that a query for kind k counts
HasKindEdge(G, u, v, k) == HasEdge(G, u, v) /\ (k = ALL \/ G.adj[<<u, v>>] = k)

Resolve(dep) == _resolve_dep(packages, _provides_map, _subpkg_map, dep)

\* the tokens a record declares under an edge kind
Declared(pkg, k) ==
    IF k = RUNTIME THEN Range(pkg.depends)
    ELSE IF k = BUILD THEN build_depends(pkg)
    ELSE Range(pkg.checkdepends)

Direct(n, k) == Range(get_dependencies(_graph, n, k, FALSE, 0 - 1))

DirectReverse(n, k) == Range(get_reverse_dependencies(_reverse_graph, n, k, FALSE, 0 - 1))

\* the nodes one edge of kind k away from a node of S
KindSucc(G, S, k) == {v \in G.nodes : \E u \in S : HasKindEdge(G, u, v, k)}

\* the nodes with an edge of kind k to a node of S
KindPred(G, S, k) == {u \in G.nodes : \E v \in S : HasKindEdge(G, u, v, k)}

\* the nodes a path of between 1 and d edges of kind k leads to from S
RECURSIVE WithinHops(_, _, _, _)
WithinHops(G, S, k, d) ==
    IF d <= 0 THEN {}
    ELSE KindSucc(G, S, k) \cup WithinHops(G, KindSucc(G, S, k), k, d - 1)

\* the same against the direction of the edges
RECURSIVE WithinHopsBack(_, _, _, _)
WithinHopsBack(G, S, k, d) ==
    IF d <= 0 THEN {}
    ELSE KindPred(G, S, k) \cup WithinHopsBack(G, KindPred(G, S, k), k, d - 1)

\* a negative max_depth is no bound: no simple path is longer than the graph
Hops(G, d) == IF d < 0 THEN Cardinality(G.nodes) ELSE d

Reachable(G, a, b) == b \in WithinHops(G, {a}, ALL, Cardinality(G.nodes))

\* the number of edges of a shortest path from a to b (b reachable from a)
Dist(G, a, b) ==
    IF a = b THEN 0
    ELSE Min({d \in 1..Cardinality(G.nodes) : b \in WithinHops(G, {a}, ALL, d)})

\* the elementary cycles of G, each in every rotation
ElemCycles(G) ==
    {c \in UNION {[1..n -> G.nodes] : n \in 1..Cardinality(G.nodes)} :
        /\ \A i \in DOMAIN c, j \in DOMAIN c : i # j => c[i] # c[j]
        /\ \A i \in DOMAIN c : HasEdge(G, c[i], c[(i % Len(c)) + 1])}

IsRotation(c, e) ==
    /\ Len(c) = Len(e)
    /\ \E r \in 0..(Len(c) - 1) : \A i \in DOMAIN c : c[i] = e[((i - 1 + r) % Len(c)) + 1]

----------------------------------------------------------------------------
(* Claims.                                                                 *)

\* C1: in a graph built by the constructor, every declared token of a record
\* n that resolves to a node t gives an edge n->t of the kind of the list it
\* stands in, so t is in get_dependencies(n, kind) for every kind it is
\* declared under.
C1_EdgePerDeclaredKind ==
    adds = 0 =>
        \A i \in DOMAIN packages, k \in EdgeTypes :
            \A dep \in Declared(packages[i], k) :
                Resolve(dep) \in _graph.nodes
                    => Resolve(dep) \in Direct(packages[i].name, k)

\* C2: in a graph built by the constructor, m is a direct reverse dependency
\* of n under kind k exactly when n is a direct dependency of m under k.
C2_ReverseIsTranspose ==
    \A m \in Tokens, n \in Tokens, k \in DependencyType :
        (m \in DirectReverse(n, k)) <=> (n \in Direct(m, k))

C2_Witness ==
    /\ call.op = "get_reverse_dependencies"
    /\ call.args[2] = BUILD
    /\ call.ret # <<>>
    /\ \E n \in Tokens : Direct(n, RUNTIME) # {}

\* C3: a token that is a record name resolves to itself, whatever the
\* indexes say; otherwise a key of the provides index resolves to its owner
\* there, whatever the subpackage index says; otherwise a key of the
\* subpackage index resolves to its owner; otherwise to None.
C3_ResolveOrder ==
    \A dep \in Tokens :
        /\ dep \in Keys(packages) => Resolve(dep) = dep
        /\ dep \notin Keys(packages) /\ dep \in DOMAIN _provides_map
              => Resolve(dep) = _provides_map[dep]
        /\ dep \notin Keys(packages) /\ dep \notin DOMAIN _provides_map
              /\ dep \in DOMAIN _subpkg_map
              => Resolve(dep) = _subpkg_map[dep]
        /\ dep \notin Keys(packages) /\ dep \notin DOMAIN _provides_map
              /\ dep \notin DOMAIN _subpkg_map
              => Resolve(dep) = None

\* a record name that another record declares as an alias, and a record
\* that depends on it: the edge goes to the record of that name
C3_Witness ==
    \E i \in DOMAIN packages : \E dep \in Range(packages[i].depends) :
        /\ dep \in Keys(packages)
        /\ dep \in DOMAIN _provides_map
        /\ _provides_map[dep] # dep
        /\ HasEdge(_graph, packages[i].name, dep)

\* C4: after the constructor and any number of add_package calls the nodes
\* are the record names, both endpoints of every edge are nodes, and every
\* edge a call adds leaves the added record for the node that one of its
\* declared tokens resolves to (a token that resolves to no record adds
\* nothing).
C4_State ==
    /\ _graph.nodes = Keys(packages)
    /\ \A e \in DOMAIN _graph.adj : e[1] \in _graph.nodes /\ e[2] \in _graph.nodes
    /\ adds = 0 =>
          \A e \in DOMAIN _graph.adj :
              \E k \in EdgeTypes : \E dep \in Declared(Lookup(packages, e[1]), k) :
                  Resolve(dep) = e[2]

C4_Step ==
    \A e \in (DOMAIN _graph'.adj) \ (DOMAIN _graph.adj) :
        /\ e[1] \in Keys(packages')
        /\ \E k \in EdgeTypes : \E dep \in Declared(Lookup(packages', e[1]), k) :
              _resolve_dep(packages', _provides_map', _subpkg_map', dep) = e[2]

C4_NodesAreRecords == [](C4_State) /\ [][C4_Step]_vars

\* add_package has added an edge (the constructor's graphs of this scenario
\* have self-loops only) and a record declares a token that resolves to
\* nothing
C4_Witness ==
    /\ adds > 0
    /\ \E e \in DOMAIN _graph.adj : e[1] # e[2]
    /\ \E i \in DOMAIN packages : \E k \in EdgeTypes :
          \E dep \in Declared(packages[i], k) : Resolve(dep) = None

\* C5: a recursive get_dependencies(n, ...) never lists n itself, also when n
\* lies on a cycle or has a self-loop, and get_dependencies in either mode
\* returns a strictly ascending list (name-sorted, no duplicates).
C5_SortedWithoutSelf ==
    call.op = "get_dependencies" =>
        /\ \A i \in DOMAIN call.ret, j \in DOMAIN call.ret :
              i < j => call.ret[i] < call.ret[j]
        /\ call.args[3] => call.args[1] \notin Range(call.ret)

\* a recursive query on a node that reaches itself, with a non-empty answer
C5_Witness ==
    /\ call.op = "get_dependencies"
    /\ call.args[3]
    /\ call.args[1] \in _graph.nodes
    /\ call.args[1] \in WithinHops(_graph, {call.args[1]}, call.args[2],
                                   Hops(_graph, call.args[4]))
    /\ Len(call.ret) >= 2

\* C6: a recursive get_dependencies(n, kind, max_depth = d) returns exactly
\* the nodes other than n that a path of between 1 and d edges of that kind
\* leads to from n (every reachable node when d < 0), and a recursive
\* get_reverse_dependencies the same over the transposed edges.
C6_ExactlyReachable ==
    /\ (call.op = "get_dependencies" /\ call.args[3] /\ call.args[1] \in _graph.nodes)
          => Range(call.ret) =
                WithinHops(_graph, {call.args[1]}, call.args[2],
                           Hops(_graph, call.args[4])) \ {call.args[1]}
    /\ (call.op = "get_reverse_dependencies" /\ call.args[3]
            /\ call.args[1] \in _graph.nodes)
          => Range(call.ret) =
                WithinHopsBack(_graph, {call.args[1]}, call.args[2],
                               Hops(_graph, call.args[4])) \ {call.args[1]}

\* C7: get_dependency_path(a, a) is [a] for a node a; it is None, and
\* nothing is raised, when an endpoint is no node or no directed path leads
\* from a to b.
C7_PathTrivialOrNone ==
    call.op = "get_dependency_path" =>
        LET a == call.args[1]
            b == call.args[2]
        IN /\ call.ret.raised = ""
           /\ (a \in _graph.nodes /\ a = b) => call.ret = ReturnSome(<<a>>)
           /\ (a \notin _graph.nodes \/ b \notin _graph.nodes) => call.ret = ReturnNone
           /\ (a \in _graph.nodes /\ b \in _graph.nodes /\ a # b
                  /\ ~Reachable(_graph, a, b)) => call.ret = ReturnNone

\* the query runs against the edges: b reaches a, a does not reach b
C7_Witness ==
    /\ call.op = "get_dependency_path"
    /\ call.args[1] \in _graph.nodes /\ call.args[2] \in _graph.nodes
    /\ call.args[1] # call.args[2]
    /\ Reachable(_graph, call.args[2], call.args[1])
    /\ ~Reachable(_graph, call.args[1], call.args[2])
    /\ call.ret = ReturnNone

\* C8: when target is reachable from source, get_dependency_path returns a
\* list from source to target with an edge between consecutive nodes and as
\* few hops as any directed path from source to target has.
C8_ShortestPath ==
    (/\ call.op = "get_dependency_path"
     /\ call.args[1] \in _graph.nodes /\ call.args[2] \in _graph.nodes
     /\ (call.args[1] = call.args[2] \/ Reachable(_graph, call.args[1], call.args[2])))
    => /\ call.ret.some
       /\ call.ret.val # <<>>
       /\ call.ret.val[1] = call.args[1]
       /\ call.ret.val[Len(call.ret.val)] = call.args[2]
       /\ \A i \in 1..(Len(call.ret.val) - 1) :
             HasEdge(_graph, call.ret.val[i], call.ret.val[i + 1])
       /\ Len(call.ret.val) - 1 = Dist(_graph, call.args[1], call.args[2])

\* a one-hop answer where a two-hop path exists as well
C8_Witness ==
    /\ call.op = "get_dependency_path"
    /\ call.ret.some
    /\ Len(call.ret.val) = 2
    /\ \E c \in _graph.nodes :
          /\ c \notin {call.args[1], call.args[2]}
          /\ HasEdge(_graph, call.args[1], c)
          /\ HasEdge(_graph, c, call.args[2])

\* C9: find_cycles returns the elementary cycles of the graph, edge kinds
\* ignored: every list returned is one, every elementary cycle is returned
\* in exactly one rotation, and the list is empty exactly when
\* get_statistics reports is_dag.
C9_ElementaryCycles ==
    call.op = "find_cycles" =>
        /\ \A i \in DOMAIN call.ret : call.ret[i] \in ElemCycles(_graph)
        /\ \A c \in ElemCycles(_graph) : \E i \in DOMAIN call.ret : IsRotation(c, call.ret[i])
        /\ \A i \in DOMAIN call.ret, j \in DOMAIN call.ret :
              i # j => ~IsRotation(call.ret[i], call.ret[j])
        /\ (call.ret = <<>>) <=> get_statistics(_graph).is_dag

\* a cycle through every record of the graph is reported
C9_Witness ==
    /\ call.op = "find_cycles"
    /\ \E i \in DOMAIN call.ret : Len(call.ret[i]) >= NumNames

\* what C10 asks of the subtree `node` found at `depth` below `ancestors`
RECURSIVE TreeOK(_, _, _, _, _)
TreeOK(node, depth, ancestors, dep_type, max_depth) ==
    IF depth > max_depth \/ node.name \in ancestors
    THEN node.truncated /\ node.children = <<>>
    ELSE /\ ~node.truncated
         /\ Len(node.children) = Cardinality(KindSucc(_graph, {node.name}, dep_type))
         /\ {node.children[i].name : i \in DOMAIN node.children}
               = KindSucc(_graph, {node.name}, dep_type)
         /\ \A i \in DOMAIN node.children :
               TreeOK(node.children[i], depth + 1, ancestors \cup {node.name},
                      dep_type, max_depth)

IsRanking(ret, top_n, nodeset, size(_)) ==
    /\ Len(ret) = (IF top_n < Cardinality(nodeset) THEN top_n ELSE Cardinality(nodeset))
    /\ \A i \in DOMAIN ret : ret[i][1] \in nodeset /\ ret[i][2] = size(ret[i][1])
    /\ \A i \in DOMAIN ret, j \in DOMAIN ret : i < j =>
          ret[i][1] # ret[j][1] /\ ret[i][2] >= ret[j][2]
    /\ \A n \in nodeset : (\A i \in DOMAIN ret : ret[i][1] # n) =>
          \A i \in DOMAIN ret : ret[i][2] >= size(n)

\* C11: get_most_depended(top_n) returns the top_n nodes in descending order
\* of the size of their recursive reverse-dependency set, and
\* get_most_dependencies(top_n) the top_n nodes in descending order of the
\* size of their recursive dependency set; each count is that set's size.
C11_RankedByRecursiveSize ==
    /\ call.op = "get_most_depended" =>
          IsRanking(call.ret, call.args[1], _graph.nodes,
                    LAMBDA n : Cardinality(WithinHopsBack(_graph, {n}, ALL,
                                               Cardinality(_graph.nodes)) \ {n}))
    /\ call.op = "get_most_dependencies" =>
          IsRanking(call.ret, call.args[1], _graph.nodes,
                    LAMBDA n : Cardinality(WithinHops(_graph, {n}, ALL,
                                               Cardinality(_graph.nodes)) \ {n}))

\* C12: get_leaf_packages() returns, sorted by name, exactly the nodes with no
\* incoming edge, and get_root_packages() returns, sorted by name, exactly the
\* nodes with no outgoing edge (edges of any kind).
C12_LeavesAndRoots ==
    /\ call.op = "get_leaf_packages" =>
          call.ret = Sorted({n \in _graph.nodes :
                               \A m \in _graph.nodes : ~HasEdge(_graph, m, n)})
    /\ call.op = "get_root_packages" =>
          call.ret = Sorted({n \in _graph.nodes :
                               \A m \in _graph.nodes : ~HasEdge(_graph, n, m)})

\* the result of a query on a graph without records: empty, None or zero
EmptyResult(op, ret) ==
    CASE op \in {"get_dependencies", "get_reverse_dependencies", "find_cycles",
                 "get_most_depended", "get_most_dependencies",
                 "get_leaf_packages", "get_root_packages"} -> ret = <<>>
      [] op = "get_dependency_path" -> ret = ReturnNone
      [] op = "get_statistics" ->
            /\ ret.nodes = 0 /\ ret.edges = 0
            /\ ret.weakly_connected_components = 0
            /\ ret.density = Quotient(0, 1)
            /\ ret.avg_in_degree = Quotient(0, 1)
            /\ ret.avg_out_degree = Quotient(0, 1)
      [] OTHER -> TRUE

\* C13: queries never fail on missing data.  For a name that is no node,
\* get_dependencies and get_reverse_dependencies (direct or recursive, any
\* kind) return the empty list and get_dependency_path returns None; on a
\* graph without records every query returns an empty, None or zero result
\* and none raises.
C13_MissingData ==
    /\ (call.op \in {"get_dependencies", "get_reverse_dependencies"}
           /\ call.args[1] \notin _graph.nodes) => call.ret = <<>>
    /\ (call.op = "get_dependency_path"
           /\ (call.args[1] \notin _graph.nodes \/ call.args[2] \notin _graph.nodes))
          => call.ret = ReturnNone
    /\ (call.op # "none" /\ packages = <<>>) => EmptyResult(call.op, call.ret)

\* statistics were asked of a graph without records
C13_Witness ==
    /\ call.op = "get_statistics"
    /\ packages = <<>> /\ _graph.nodes = {}

CleanedText(token) ==
    LET ops == {i \in DOMAIN token : token[i] \in {">", "<", "=", "~"}}
        cut1 == IF ops = {} THEN token ELSE SubSeq(token, 1, Min(ops) - 1)
        colons == {i \in 1..(Len(cut1) - 1) : cut1[i] = ":" /\ cut1[i + 1] = ":"}
        cut2 == IF colons = {} THEN cut1 ELSE SubSeq(cut1, 1, Min(colons) - 1)
        Inside(i) == \E j \in 1..i, k \in i..Len(cut2) :
                        cut2[j] = "(" /\ cut2[k] = ")" /\ \A x \in j..(i - 1) : cut2[x] # ")"
        kept == {i \in DOMAIN cut2 : ~Inside(i)}
    IN [n \in 1..Cardinality(kept) |->
           cut2[CHOOSE i \in kept : Cardinality({j \in kept : j < i}) = n - 1]]

\* C18: _clean_dep_name drops a token that starts with "!"; any other token
\* is cut at the first of > < = ~, then at ::, loses every parenthesized
\* segment, and is kept only if what is left is non-empty and starts with an
\* alphanumeric character.  The recipe line
\* depends="libfoo>=1.0 libbar<2.0 !conflicting" parses to [libfoo, libbar].
C18_TokenCleaning ==
    /\ call.op = "_clean_dep_name" =>
          LET token == call.args[1]
              left == CleanedText(token)
          IN call.ret = IF Head(token) = "!" THEN NoStr
                        ELSE IF left # <<>> /\ IsAlnum(Head(left)) THEN SomeStr(left)
                        ELSE NoStr
    /\ call.op = "parse_content" /\ Contains(call.args[1], L_depends) /\ call.ret.some =>
          call.ret.val.depends = <<<<"l", "i", "b", "f", "o", "o">>, <<"l", "i", "b", "b", "a", "r">>>>

C18_Witness ==
    /\ call.op = "parse_content"
    /\ Contains(call.args[1], L_depends)
    /\ call.ret.some
    /\ call.ret.val.depends = <<<<"l", "i", "b", "f", "o", "o">>, <<"l", "i", "b", "b", "a", "r">>>>

\* the recipe holds the line
HasLine(content, line) == line \in Range(Split(content, <<"\n">>))

\* the value a shell gives the pkgrel line of a recipe of the pool: the
\* integer itself, the value of the arithmetic expression (an unset
\* variable counts 0), and 0 for a word, a division by zero or no line
ShellRelease(content) ==
    CASE HasLine(content, L_rel_3) -> 3
      [] HasLine(content, L_rel_var) -> IF HasLine(content, L_def_rel) THEN 4 ELSE 1
      [] HasLine(content, L_rel_minus) -> 0 - 2
      [] HasLine(content, L_rel_paren) -> 9
      [] HasLine(content, L_rel_div) -> 3
      [] OTHER -> 0

\* C17: the release of a parsed record is a non-negative integer: a bare
\* integer pkgrel gives that integer, a $(( expr )) pkgrel gives the value
\* of the expression, and an unparsable value or a failed evaluation gives 0.
C17_Release ==
    call.op = "parse_content" /\ call.ret.some =>
        /\ call.ret.val.release \in Nat
        /\ call.ret.val.release = ShellRelease(call.args[1])

\* the eight list fields of a record
DepListFields ==
    {"depends", "makedepends", "makedepends_build", "makedepends_host", "checkdepends",
     "provides", "replaces", "subpackages"}

\* C19: no list field of a parsed record holds the empty string or a token
\* that starts with "$", and a token that still holds an unexpanded
\* reference is dropped, not stored: no stored name holds a "$".
C19_NoUnresolvedTokens ==
    call.op = "parse_content" /\ call.ret.some =>
        \A f \in DepListFields : \A i \in DOMAIN call.ret.val[f] :
            LET name == call.ret.val[f][i]
            IN /\ name # <<>>
               /\ Head(name) # "$"
               /\ ~Contains(name, <<"$">>)

\* C20: parse_content returns None or a record whose name is not empty; a
\* recipe without a package-name assignment gives None.
C20_NameNonEmpty ==
    call.op = "parse_content" =>
        /\ call.ret.some => call.ret.val.name # <<>>
        /\ (\A line \in Range(Split(call.args[1], <<"\n">>)) :
               ~StartsWith(line, S_pkgname \o <<"=">>)) => ~call.ret.some

\* C15: whatever the interleaving of the workers of a scan, the record a
\* worker hands back for its file is the record parse_content gives that
\* file on its own.
C15_ParseAlone ==
    \A i \in DOMAIN workers :
        workers[i].pc \in {"done", "collected"} =>
            workers[i].ret = parse_content(workers[i].content, workers[i].filepath).ret

\* C16: a record set saved with save_to_json and read back with
\* load_from_json comes back equal: every record field for field, an empty
\* list as an empty list, and the provides and subpackage maps equal.
C16_RoundTrip ==
    call.op = "save_to_json" =>
        LET loaded == load_from_json(disk.data)
        IN /\ DOMAIN loaded._packages = DOMAIN scanner._packages
           /\ \A name \in DOMAIN scanner._packages :
                 \A field \in DOMAIN NewPackageInfo(name) :
                     loaded._packages[name][field] = scanner._packages[name][field]
           /\ loaded._provides_map = scanner._provides_map
           /\ loaded._subpkg_map = scanner._subpkg_map

\* a scanned record set with an empty and a non-empty list and a provides
\* entry has been saved and loaded again
C16_Witness ==
    /\ call.op = "load_from_json"
    /\ scanner = load_from_json(disk.data)
    /\ \E name \in DOMAIN scanner._packages :
          /\ scanner._packages[name].makedepends = <<>>
          /\ scanner._packages[name].depends # <<>>
    /\ scanner._provides_map # EmptyMap

\* the lines of a recipe that assign pkgname, in order
NameAssignments(content) ==
    SelectSeq(Split(content, <<"\n">>), LAMBDA line : StartsWith(line, S_pkgname \o <<"=">>))

\* the name a line of the pool assigns: the value without quotes and
\* blanks, an unset variable expanded to nothing
AssignedName(line) ==
    CASE line = L_name_a -> <<"a">>
      [] line = L_name_b -> <<"b">>
      [] OTHER -> <<>>

Quoted(content) ==
    LET q == <<"\"">>
        rest == From(content, Find(content, q) + 1)
    IN Before(rest, Find(rest, q))

\* C22: a dependency variable whose quoted value opens on the assignment
\* line and closes on a later line yields every token written between the
\* two quotes, in order, the tokens on the line of the opening quote
\* included.
C22_MultilineTokens ==
    (call.op = "parse_content" /\ call.args[1] \in Multiline)
    => /\ call.ret.some
       /\ call.ret.val.depends = SplitWs(Quoted(call.args[1]))

\* C23: after any sequence of add_package calls, m is in
\* get_reverse_dependencies(n) exactly when n is in get_dependencies(m), and
\* get_leaf_packages() lists exactly the nodes with no incoming edge.
C23_AddPackageKeepsSymmetry ==
    /\ \A m \in _graph.nodes, n \in _graph.nodes :
          (m \in Range(get_reverse_dependencies(_reverse_graph, n, ALL, FALSE, 0 - 1)))
              <=> (n \in Range(get_dependencies(_graph, m, ALL, FALSE, 0 - 1)))
    /\ get_leaf_packages(packages, _reverse_graph)
          = Sorted({n \in _graph.nodes : \A m \in _graph.nodes : ~HasEdge(_graph, m, n)})

\* a sequence without a repeated element
NoRepeat(s) == \A i \in DOMAIN s, j \in DOMAIN s : s[i] = s[j] => i = j

\* the dequeues a traversal of G may need: the start and one per edge
Fuel(G) == 1 + Cardinality(DOMAIN G.adj)

\* C24: the traversal behind a recursive get_dependencies or
\* get_reverse_dependencies empties its queue after at most one dequeue for
\* the start and one per edge, on graphs with cycles and self-loops and with
\* max_depth unlimited too, and enumerates the edges of no node twice; the
\* nodes it expanded, the start left out, are the answer.
C24_TraversalExpandsOnce ==
    /\ (call.op = "get_dependencies" /\ call.args[3] /\ call.args[1] \in _graph.nodes)
          => LET t == DepsTrace(_graph, <<<<call.args[1], 0>>>>, {}, <<>>,
                                call.args[2], call.args[4], Fuel(_graph))
             IN /\ t.done
                /\ NoRepeat(t.expanded)
                /\ call.ret = Sorted(Range(t.expanded) \ {call.args[1]})
    /\ (call.op = "get_reverse_dependencies" /\ call.args[3]
            /\ call.args[1] \in _reverse_graph.nodes)
          => LET t == RdepsTrace(_reverse_graph, <<<<call.args[1], 0>>>>, {}, <<>>,
                                 call.args[2], call.args[4], Fuel(_reverse_graph))
             IN /\ t.done
                /\ NoRepeat(t.expanded)
                /\ call.ret = Sorted(Range(t.expanded) \ {call.args[1]})

\* an unlimited recursive query on a node that has a self-loop and lies on a
\* cycle through another node
C24_Witness ==
    /\ call.op = "get_dependencies"
    /\ call.args[3]
    /\ call.args[4] < 0
    /\ HasEdge(_graph, call.args[1], call.args[1])
    /\ \E m \in _graph.nodes \ {call.args[1]} :
          HasEdge(_graph, call.args[1], m) /\ HasEdge(_graph, m, call.args[1])
    /\ call.ret # <<>>

\* a shell pattern matches a whole string: * is any string, ? any single
\* character, every other character itself
RECURSIVE GlobMatch(_, _)
GlobMatch(pattern, s) ==
    IF pattern = <<>> THEN s = <<>>
    ELSE IF Head(pattern) = "*"
    THEN GlobMatch(Tail(pattern), s) \/ (s # <<>> /\ GlobMatch(pattern, Tail(s)))
    ELSE /\ s # <<>>
         /\ Head(pattern) = "?" \/ Head(pattern) = Head(s)
         /\ GlobMatch(Tail(pattern), Tail(s))

\* where the suffixes of value that the pattern matches start
SuffixStarts(value, pattern) ==
    {i \in 1..(Len(value) + 1) : GlobMatch(pattern, From(value, i))}

\* value without its shortest (longest) suffix that the pattern matches
WithoutSuffix(value, pattern, longest) ==
    LET starts == SuffixStarts(value, pattern)
    IN IF starts = {} THEN value
       ELSE IF longest THEN Before(value, Min(starts))
       ELSE Before(value, CHOOSE i \in starts : \A j \in starts : j <= i)

\* C25: expand replaces ${v%pattern} by the value of v without its shortest
\* suffix matching the pattern and ${v%%pattern} by the value without its
\* longest matching suffix; the value is unchanged when no suffix matches or
\* v is unset.
C25_SuffixRemoval ==
    call.op = "expand" =>
        \A p \in SuffixPatterns :
            /\ call.args[2] = RemoveShortest(p)
                  => call.ret = WithoutSuffix(CtxGet(call.args[1], <<"v">>), p, FALSE)
            /\ call.args[2] = RemoveLongest(p)
                  => call.ret = WithoutSuffix(CtxGet(call.args[1], <<"v">>), p, TRUE)

\* the variable and the value of the `|| w=b` part of a conditional line of
\* the pool, b expanded by hand with q = 7 and u unset; empty when the line
\* has no such part
ElseBranch(line) ==
    CASE line = L_cond_plain -> <<<<"w">>, <<"b">>>>
      [] line = L_cond_ref -> <<<<"w">>, <<"7", "-", "1">>>>
      [] line = L_cond_same -> <<<<"q">>, <<"b", " ", "c">>>>
      [] line = L_cond_quoted -> <<<<"w">>, <<"c">>>>
      [] line = L_cond_default -> <<<<"w">>, <<"z">>>>
      [] OTHER -> <<>>

\* the variables after variable discovery on the recipe without its
\* conditional line
BeforeCond == parse_content(Recipe(<<L_name_a, L_q>>), L_none).st._ctx

RECURSIVE LongestFrom(_, _, _)
LongestFrom(G, last, seen) ==
    LET next == {v \in G.nodes \ seen : HasEdge(G, last, v)}
        len == {1 + LongestFrom(G, v, seen \cup {v}) : v \in next}
    IN IF next = {} THEN 0 ELSE CHOOSE n \in len : \A m \in len : m <= n

\* C27: get_dependency_depth(p) is the number of edges of the longest
\* dependency path starting at p, and 0 when p is unknown or has no
\* dependencies.
C27_LongestPath ==
    call.op = "get_dependency_depth" =>
        call.ret = IF call.args[1] \in _graph.nodes
                   THEN LongestFrom(_graph, call.args[1], {call.args[1]})
                   ELSE 0

\* C29: every edge of the graph get_subgraph returns, with its kind, is an
\* edge of the graph it was taken from.
C29_SubgraphEdges ==
    call.op = "get_subgraph" =>
        \A e \in DOMAIN call.ret.graph.adj :
            /\ e \in DOMAIN _graph.adj
            /\ call.ret.graph.adj[e] = _graph.adj[e]

\* the scanner after storing, in the order of the list, the record that
\* parse_content gives each file on its own
RECURSIVE StoreAll(_, _)
StoreAll(sc, files) ==
    IF files = <<>> THEN sc
    ELSE LET r == parse_content(Head(files).content, Head(files).filepath).ret
         IN StoreAll(IF r.some THEN Store(sc, r.val) ELSE sc, Tail(files))

\* every future of the scan has been collected
AllCollected == workers # <<>> /\ \A i \in DOMAIN workers : workers[i].pc = "collected"

\* C28: the package map, provides map and subpackage map a scan leaves do not
\* depend on the order in which the workers complete: they are the maps that
\* parsing and storing the files one after the other in the order they were
\* submitted gives, which is one of the completion orders.
C28_OrderIndependent ==
    AllCollected => scanner = StoreAll(AportsScanner, workers)

\* the same, for the scans in which every worker handed back the record its
\* file gives on its own
C28_OrderIndependentAlone ==
    (AllCollected /\ C15_ParseAlone) => scanner = StoreAll(AportsScanner, workers)

\* C30: a graph grown from the empty graph by add_package holds the nodes,
\* the edges with their kinds and the provides and subpackage indexes that
\* the constructor gives for the same records.
C30_IncrementalIsBatch ==
    Len(packages) = adds =>
        LET batch == New(packages)
        IN /\ _graph = batch.graph
           /\ _provides_map = batch.provides
           /\ _subpkg_map = batch.subpkg

====
